---- MODULE Spec2Model ----
(***************************************************************************)
(* The durable turn store of cxdb: the content-addressed blob store, the   *)
(* append-only turn log with its index and head table, the context model   *)
(* (create, fork, append), the read paths, and crash / open-time recovery. *)
(* turn_store.rs, blob_store.rs and store.rs are declared in lib.rs; the   *)
(* operations below follow spec.md sections 3, 4.1, 4.2, 4.3, 5 and 7.     *)
(***************************************************************************)
EXTENDS Naturals, Integers, Sequences, FiniteSets

\* ------------------------------------------------------------------ bounds
\* the contexts and the turns (log records, turn_ids) of a run
MaxContexts == 2
MaxTurns == 4
\* the turns of the runs that build a long chain and fork it
MaxChain == 5
\* "seen within this context's last N appends" (section 4.2 step 2)
IdemWindow == 1
\* the length the log reaches in the runs with crashes
MaxCrashLog == 3
\* the build_from_cache and add_context calls of a run
MaxCalls == 2
\* The most words a generated query text is made of.
MaxWords == 4
\* The longest variable-length field of a generated request payload, in bytes.
MaxField == 1
\* The most SSE streams open at a time.
MaxStreams == 2
\* The most frames written back to back.
MaxFrames == 2
\* The most writes the store makes to its files while the mirror runs.
MaxWrites == 2

Payloads == {"a", "b"}
EmptyPayload == ""
NoKey == "nokey"
Keys == {"k1"}

\* ------------------------------------------------------------------- state
VARIABLES
  open,        \* the store is open (the process is running)
  pc,          \* where the writer holding the store mutex is in append
  op,          \* the append in flight (meaningful while pc # "idle")
  pack,        \* blobs.pack: the blobs' bytes, in append order
  packSynced,  \* how many blobs of the pack are durable (periodic flush)
  bidx,        \* blobs.idx: <<digest, position in the pack>> entries
  log,         \* turns.log: the turn records, in append order
  tidx,        \* turns.idx: one entry per turn, position in the log
  heads,       \* heads.tbl: slot c holds the head tuple of context c
  hdrTurn,     \* the turn_id counter as persisted in the log header
  nextTurn,    \* the in-memory turn_id counter
  res,         \* the response to the latest request
  closeView,   \* what the reads returned when the store was last closed
  crash,       \* what the latest crash interrupted
  indexes,     \* the SecondaryIndexes of the CQL engine
  latest,      \* per context id, the metadata and head last given to the indexes
  supplied,    \* every <<context id, metadata>> ever given to the indexes
  calls,       \* how many build_from_cache / add_context calls were made
  answer,      \* the latest search: expression, live set, result
  parsing,     \* the latest query text given to parse, and what parse returned
  wire,        \* the latest frame read or request parsed, and the result
  http,        \* the HTTP request being handled: route, step, guards, response
  sse,         \* the SSE streaming threads: what each wrote last
  s3           \* the S3 mirror: local files, bucket, sync state, sync task

storeVars == <<open, pc, op, pack, packSynced, bidx, log, tidx, heads, hdrTurn,
               nextTurn, res, closeView, crash>>

cqlVars == <<indexes, latest, supplied, calls, answer>>

wireVars == <<parsing, wire, http, sse, s3>>

vars == <<storeVars, cqlVars, wireVars>>

\* ----------------------------------------------------------------- helpers
Max(S) == CHOOSE x \in S : \A y \in S : y <= x

\* BLAKE3 of a payload: a 32-byte digest, never the bytes themselves.
Blake3(b) == <<"blake3", b>>

NoOp == [context_id |-> 0, parent_turn_id |-> 0, payload |-> EmptyPayload,
         key |-> NoKey, turn_id |-> 0, depth |-> 0]
NoRes == [kind |-> "None", why |-> "", turn_id |-> 0, depth |-> 0, hash |-> <<>>]
NoCrash == [at |-> "none", context_id |-> 0, turn_id |-> 0, depth |-> 0,
            torn |-> FALSE]
NoView == [taken |-> FALSE, view |-> <<>>]

\* AppendAck = {context_id, new_turn_id, new_depth, hash}; PutBlob answers the hash.
Ok(t, d, h) == [kind |-> "Ok", why |-> "", turn_id |-> t, depth |-> d, hash |-> h]
InvalidInput(w) == [kind |-> "InvalidInput", why |-> w, turn_id |-> 0, depth |-> 0, hash |-> <<>>]
NotFound(w) == [kind |-> "NotFound", why |-> w, turn_id |-> 0, depth |-> 0, hash |-> <<>>]

Contexts == 1..Len(heads)

\* ------------------------------------------------------------- blob store
HasBlob(d) == \E i \in 1..Len(bidx) : bidx[i].digest = d

BlobEntry(d) == bidx[CHOOSE i \in 1..Len(bidx) : bidx[i].digest = d]

\* get(digest): index lookup, bounded read from the pack, digest check.
GetBlob(d) ==
  IF ~HasBlob(d) THEN "NotFound"
  ELSE IF BlobEntry(d).pos > Len(pack) THEN "Corrupt"
  ELSE IF Blake3(pack[BlobEntry(d).pos]) # d THEN "Corrupt"
  ELSE pack[BlobEntry(d).pos]

\* A put that appends even when the digest is already indexed.
PutPackAlways(b) == Append(pack, b)

\* put(bytes): the pack after the put; unchanged when the digest is present.
PutPack(b) == IF HasBlob(Blake3(b)) THEN pack ELSE Append(pack, b)

\* put(bytes): the index after the put.
PutIdx(b) ==
  IF HasBlob(Blake3(b)) THEN bidx
  ELSE Append(bidx, [digest |-> Blake3(b), pos |-> Len(PutPack(b))])

\* --------------------------------------------------------------- turn log
TurnRecord(t, c, p, d, h, k) ==
  [turn_id |-> t, context_id |-> c, parent_turn_id |-> p, depth |-> d,
   payload_hash |-> h, idempotency_key |-> k, whole |-> TRUE]

IdxEntry(r, pos) == [turn_id |-> r.turn_id, context_id |-> r.context_id, pos |-> pos]

\* turns.idx lookup: the position of turn t in the log (0: not indexed).
TurnPos(t) ==
  LET S == {i \in 1..Len(tidx) : tidx[i].turn_id = t /\ tidx[i].pos <= Len(log)}
  IN IF S = {} THEN 0 ELSE tidx[Max(S)].pos

HasTurn(t) == TurnPos(t) # 0

GetTurn(t) == log[TurnPos(t)]

\* The turns from the root to turn t, oldest first, at most n of them,
\* walking parent pointers from t.
RECURSIVE Walk(_, _)
Walk(t, n) ==
  IF n = 0 THEN <<>>
  ELSE CHOOSE w \in { IF pos = 0 THEN <<>>
                      ELSE Append(Walk(log[pos].parent_turn_id, n - 1), log[pos])
                      : pos \in {TurnPos(t)} } : TRUE

Unbounded == MaxChain + 2

GetHead(c) == IF c \in Contexts THEN heads[c] ELSE "NotFound"

\* get_last that returns the turns newest first.
GetLastNewestFirst(c, limit) ==
  IF c \in Contexts
  THEN LET w == Walk(heads[c].head_turn_id, limit)
       IN [i \in 1..Len(w) |-> w[Len(w) + 1 - i]]
  ELSE "NotFound"

GetLast(c, limit) == IF c \in Contexts THEN Walk(heads[c].head_turn_id, limit) ELSE "NotFound"

GetBefore(c, t, limit) ==
  IF c \in Contexts /\ HasTurn(t) THEN Walk(GetTurn(t).parent_turn_id, limit) ELSE "NotFound"

GetRangeByDepth(c, lo, hi) ==
  LET chain == GetLast(c, Unbounded)
  IN IF c \in Contexts THEN SelectSeq(chain, LAMBDA r : lo <= r.depth /\ r.depth <= hi)
     ELSE "NotFound"

View == [c \in Contexts |-> [head |-> GetHead(c), last |-> GetLast(c, Unbounded)]]

\* The records of context c in the log, oldest first.
CtxRecords(c) == SelectSeq(log, LAMBDA r : r.context_id = c)

LastN(s, n) == IF Len(s) <= n THEN s ELSE SubSeq(s, Len(s) - n + 1, Len(s))

\* The context's last N appends that carry key k.
Recent(c, k) ==
  SelectSeq(LastN(CtxRecords(c), IdemWindow), LAMBDA r : r.idempotency_key = k)

IsReplay(c, k) == k # NoKey /\ c \in Contexts /\ Recent(c, k) # <<>>

\* Any existing turn is accepted as the parent.
ParentOkAny(c, p) == HasTurn(p)

\* Step 1: the parent must be the context's current head.
ParentOk(c, p) == p = heads[c].head_turn_id

\* The new turn's depth counted from the context's own records.
NewDepthOwn(c) == Len(CtxRecords(c))

\* The new turn's depth: parent.depth + 1, the parent being the head.
NewDepth(c) == heads[c].head_depth + 1

\* ---------------------------------------------------------------- recovery
\* The log as recovery leaves it: cut at the first record whose CRC fails.
WholePrefix(lg) ==
  LET bad == {i \in 1..Len(lg) : ~lg[i].whole}
  IN IF bad = {} THEN lg
     ELSE SubSeq(lg, 1, (CHOOSE i \in bad : \A j \in bad : i <= j) - 1)

\* Recovery that keeps a record whose CRC fails.
RecoverLogKeep(lg) == lg

RecoverLog(lg) == WholePrefix(lg)

\* turns.idx after recovery: dangling entries cut, missing entries completed.
RebuildIdx(lg) == [i \in 1..Len(lg) |-> IdxEntry(lg[i], i)]

\* The log offset of the last durable head.
HeadPos(h, lg) ==
  Max({0} \cup {i \in 1..Len(lg) : \E c \in 1..Len(h) : lg[i].turn_id = h[c].head_turn_id})

\* Recovery that takes every head from the context's own last record.
RecoverHeadsOwn(h, lg) ==
  [c \in 1..Len(h) |->
     LET own == {i \in 1..Len(lg) : lg[i].context_id = c}
     IN IF own = {} THEN [head_turn_id |-> 0, head_depth |-> 0]
        ELSE [head_turn_id |-> lg[Max(own)].turn_id, head_depth |-> lg[Max(own)].depth]]

\* The head table after the scan of the log tail: a context whose persisted
\* head is stale relative to the log gets its last record as head.
RecoverHeads(h, lg) ==
  [c \in 1..Len(h) |->
     LET tail == {i \in 1..Len(lg) : i > HeadPos(h, lg) /\ lg[i].context_id = c}
     IN IF tail = {} THEN h[c]
        ELSE [head_turn_id |-> lg[Max(tail)].turn_id, head_depth |-> lg[Max(tail)].depth]]

\* blobs.idx after recovery: entries pointing past the pack tail are cut.
RecoverBidx(bi, pk) == SelectSeq(bi, LAMBDA e : e.pos <= Len(pk))

\* =============================================================== CQL engine
\* A Rust string is the sequence of its bytes; the strings below are ASCII,
\* "Ab" is <<65, 98>>.  Option<T> is the empty set or a singleton.
None == {}
Some(v) == {v}
Unwrap(o) == CHOOSE v \in o : TRUE

\* str::cmp, the order of sort_by and of `s.as_str() < prefix`: bytewise
\* lexicographic, a proper prefix before its extensions.
StrLess(a, b) ==
  \E k \in 1..Len(b) :
    /\ \A j \in 1..(k - 1) : j <= Len(a) /\ a[j] = b[j]
    /\ k > Len(a) \/ a[k] < b[k]

\* str::starts_with
StartsWith(s, p) == Len(p) <= Len(s) /\ SubSeq(s, 1, Len(p)) = p

\* str::to_lowercase on ASCII: 'A'..'Z' (65..90) map to 'a'..'z'.
ToLowercase(s) == [i \in 1..Len(s) |-> IF s[i] \in 65..90 THEN s[i] + 32 ELSE s[i]]

\* ------------------------------------------------------- SecondaryIndexes
\* A HashMap<K, HashSet<u64>> or BTreeMap<K, HashSet<u64>> is the set of its
\* <<key, context_id>> pairs; a Vec<(String, u64)> is a sequence of pairs.
NewIndexes ==
  [tag_exact |-> {}, tag_sorted |-> <<>>, tag_lower_exact |-> {}, tag_lower_sorted |-> <<>>,
   title_exact |-> {}, title_sorted |-> <<>>, title_lower_exact |-> {}, title_lower_sorted |-> <<>>,
   label_exact |-> {},
   user_exact |-> {}, user_sorted |-> <<>>, user_lower_exact |-> {}, user_lower_sorted |-> <<>>,
   service_exact |-> {}, service_sorted |-> <<>>, service_lower_exact |-> {}, service_lower_sorted |-> <<>>,
   host_exact |-> {}, host_sorted |-> <<>>,
   trace_id_exact |-> {},
   parent_exact |-> {}, root_exact |-> {},
   created_btree |-> {}, depth_btree |-> {},
   all_context_ids |-> {}]

\* map.get(key).cloned().unwrap_or_default()
Get(map, key) == {e[2] : e \in {x \in map : x[1] = key}}

\* Index a single context's metadata.  `entry(k).or_default().insert(id)`
\* adds the pair <<k, id>> to a map; `push((k, id))` appends it to a vector.
index_metadata(idx, context_id, metadata) ==
  LET Entry(k) == {<<k, context_id>>}
      Pushed(vec, k) == Append(vec, <<k, context_id>>)
      tagged ==
        IF metadata.client_tag = None THEN idx
        ELSE LET tag == Unwrap(metadata.client_tag)
                 lower == ToLowercase(tag)
             IN [idx EXCEPT !.tag_exact = @ \cup Entry(tag),
                            !.tag_sorted = Pushed(@, tag),
                            !.tag_lower_exact = @ \cup Entry(lower),
                            !.tag_lower_sorted = Pushed(@, lower)]
      titled ==
        IF metadata.title = None THEN tagged
        ELSE LET title == Unwrap(metadata.title)
                 lower == ToLowercase(title)
             IN [tagged EXCEPT !.title_exact = @ \cup Entry(title),
                               !.title_sorted = Pushed(@, title),
                               !.title_lower_exact = @ \cup Entry(lower),
                               !.title_lower_sorted = Pushed(@, lower)]
      labelled ==
        IF metadata.labels = None THEN titled
        ELSE LET labels == Unwrap(metadata.labels)
             IN [titled EXCEPT !.label_exact =
                   @ \cup {<<labels[i], context_id>> : i \in 1..Len(labels)}]
  IN IF metadata.provenance = None THEN labelled
     ELSE LET prov == Unwrap(metadata.provenance)
              withUser ==
                IF prov.on_behalf_of = None THEN labelled
                ELSE LET user == Unwrap(prov.on_behalf_of)
                         lower == ToLowercase(user)
                     IN [labelled EXCEPT !.user_exact = @ \cup Entry(user),
                                         !.user_sorted = Pushed(@, user),
                                         !.user_lower_exact = @ \cup Entry(lower),
                                         !.user_lower_sorted = Pushed(@, lower)]
              withService ==
                IF prov.service_name = None THEN withUser
                ELSE LET service == Unwrap(prov.service_name)
                         lower == ToLowercase(service)
                     IN [withUser EXCEPT !.service_exact = @ \cup Entry(service),
                                         !.service_sorted = Pushed(@, service),
                                         !.service_lower_exact = @ \cup Entry(lower),
                                         !.service_lower_sorted = Pushed(@, lower)]
              withHost ==
                IF prov.host_name = None THEN withService
                ELSE [withService EXCEPT
                        !.host_exact = @ \cup Entry(Unwrap(prov.host_name)),
                        !.host_sorted = Pushed(@, Unwrap(prov.host_name))]
              withTrace ==
                IF prov.trace_id = None THEN withHost
                ELSE [withHost EXCEPT !.trace_id_exact = @ \cup Entry(Unwrap(prov.trace_id))]
              withParent ==
                IF prov.parent_context_id = None THEN withTrace
                ELSE [withTrace EXCEPT
                        !.parent_exact = @ \cup Entry(Unwrap(prov.parent_context_id))]
          IN IF prov.root_context_id = None THEN withParent
             ELSE [withParent EXCEPT
                     !.root_exact = @ \cup Entry(Unwrap(prov.root_context_id))]

\* slice::sort_by(|a, b| a.0.cmp(&b.0)): a stable sort on the string alone.
\* Element i moves behind the elements with a smaller string and the earlier
\* elements with the same string.
sort_by(v) ==
  LET SortedPos(i) ==
        1 + Cardinality({j \in 1..Len(v) :
              StrLess(v[j][1], v[i][1]) \/ (j < i /\ v[j][1] = v[i][1])})
  IN [k \in 1..Len(v) |-> v[CHOOSE i \in 1..Len(v) : SortedPos(i) = k]]

\* The indexes with the freshly pushed entries left where they were pushed.
sort_indexes_skipped(idx) == idx

\* Sort all sorted indexes for binary search.
sort_indexes(idx) ==
  [idx EXCEPT !.tag_sorted = sort_by(@), !.tag_lower_sorted = sort_by(@),
              !.title_sorted = sort_by(@), !.title_lower_sorted = sort_by(@),
              !.user_sorted = sort_by(@), !.user_lower_sorted = sort_by(@),
              !.service_sorted = sort_by(@), !.service_lower_sorted = sort_by(@),
              !.host_sorted = sort_by(@)]

\* Add a new context to the indexes.
add_context(idx, context_id, metadata, created_at_unix_ms, depth) ==
  LET i1 == [idx EXCEPT !.all_context_ids = @ \cup {context_id}]
      i2 == IF metadata = None THEN i1
            ELSE sort_indexes(index_metadata(i1, context_id, Unwrap(metadata)))
  IN [i2 EXCEPT !.created_btree = @ \cup {<<created_at_unix_ms, context_id>>},
                !.depth_btree = @ \cup {<<depth, context_id>>}]

\* The first loop of build_from_cache.  metadata_cache is the HashMap in the
\* order its iterator happens to yield the entries: <<context_id, Option>>.
RECURSIVE IndexCache(_, _)
IndexCache(idx, metadata_cache) ==
  IF metadata_cache = <<>> THEN idx
  ELSE LET e == Head(metadata_cache)
           i1 == [idx EXCEPT !.all_context_ids = @ \cup {e[1]}]
           i2 == IF e[2] = None THEN i1 ELSE index_metadata(i1, e[1], Unwrap(e[2]))
       IN IndexCache(i2, Tail(metadata_cache))

\* The second loop: created_at and depth of every head.
RECURSIVE IndexHeads(_, _)
IndexHeads(idx, heads_) ==
  IF heads_ = <<>> THEN idx
  ELSE LET head == Head(heads_)
       IN IndexHeads(
            [idx EXCEPT !.all_context_ids = @ \cup {head.context_id},
                        !.created_btree = @ \cup {<<head.created_at_unix_ms, head.context_id>>},
                        !.depth_btree = @ \cup {<<head.head_depth, head.context_id>>}],
            Tail(heads_))

\* Build indexes from existing context metadata cache.
build_from_cache(idx, metadata_cache, heads_) ==
  sort_indexes(IndexHeads(IndexCache(idx, metadata_cache), heads_))

\* A universe that holds no context.
all_contexts_empty(idx) == {}

\* Get all context IDs (for NOT operations).
all_contexts(idx) == idx.all_context_ids

\* ---- prefix lookups
\* slice::partition_point(|(s, _)| s < prefix): the binary search of the
\* standard library on the half-open range left..right (0-based).
RECURSIVE PartitionPoint(_, _, _, _)
PartitionPoint(sorted, prefix, left, right) ==
  IF left >= right THEN left
  ELSE CHOOSE r \in { IF StrLess(sorted[mid + 1][1], prefix)
                      THEN PartitionPoint(sorted, prefix, mid + 1, right)
                      ELSE PartitionPoint(sorted, prefix, left, mid)
                      : mid \in {left + (right - left) \div 2} } : TRUE

\* From the partition point on, collect ids while the string starts with the
\* prefix; stop at the first that does not.
prefix_search(sorted, prefix) ==
  IF sorted = <<>> THEN {}
  ELSE LET start == PartitionPoint(sorted, prefix, 0, Len(sorted))
       IN {sorted[i][2] : i \in {k \in (start + 1)..Len(sorted) :
             \A j \in (start + 1)..k : StartsWith(sorted[j][1], prefix)}}

\* -------------------------------------------------------------------- AST
\* Value::String, Value::Number, Value::Date, Value::List: `type` is the
\* variant, the fields of the other variants are left at their defaults.
StringValue(s) ==
  [type |-> "string", value |-> s, number |-> 0, relative |-> FALSE, values |-> <<>>]
NumberValue(n) ==
  [type |-> "number", value |-> <<>>, number |-> n, relative |-> FALSE, values |-> <<>>]
DateValue(s, relative) ==
  [type |-> "date", value |-> s, number |-> 0, relative |-> relative, values |-> <<>>]
ListValue(values) ==
  [type |-> "list", value |-> <<>>, number |-> 0, relative |-> FALSE, values |-> values]

Comparison(field, operator, value) ==
  [type |-> "comparison", field |-> field, operator |-> operator, value |-> value]
And(left, right) == [type |-> "and", left |-> left, right |-> right]
Or(left, right) == [type |-> "or", left |-> left, right |-> right]
Not(inner) == [type |-> "not", inner |-> inner]

as_string(v) == IF v.type \in {"string", "date"} THEN Some(v.value) ELSE None

as_number(v) == IF v.type = "number" THEN Some(v.number) ELSE None

\* `n as u64` saturates: a negative number gives 0.
as_u64(v) ==
  IF as_number(v) = None THEN None
  ELSE Some(IF Unwrap(as_number(v)) < 0 THEN 0 ELSE Unwrap(as_number(v)))

as_list(v) == IF v.type = "list" THEN Some(v.values) ELSE None

\* FieldName::from_str
from_str(s) ==
  IF s \in {"id", "tag", "title", "label", "user", "service", "host", "trace_id",
            "parent", "root", "created", "depth", "is_live"}
  THEN Some(s) ELSE None

\* --------------------------------------------------------------- executor
\* Result<HashSet<u64>, CqlError>: the ids, or the error's type.
OkIds(ids) == [ok |-> TRUE, ids |-> ids, error_type |-> "none"]
Err(error_type) == [ok |-> FALSE, ids |-> {}, error_type |-> error_type]

\* The five `match field` blocks of execute_string_field, with the lookups
\* of indexes.rs: lookup_*_exact is a get on the exact map, lookup_*_exact_ci
\* a get of the lowercased value on the lowercased map, lookup_*_prefix and
\* lookup_*_prefix_ci a prefix_search on the sorted vectors; host has no
\* lowercased index and answers ~= and ^~= from the case-sensitive one.
StringExact(idx, field, s) ==
  CASE field = "tag" -> Get(idx.tag_exact, s)
    [] field = "title" -> Get(idx.title_exact, s)
    [] field = "user" -> Get(idx.user_exact, s)
    [] field = "service" -> Get(idx.service_exact, s)
    [] field = "host" -> Get(idx.host_exact, s)

StringExactCi(idx, field, s) ==
  CASE field = "tag" -> Get(idx.tag_lower_exact, ToLowercase(s))
    [] field = "title" -> Get(idx.title_lower_exact, ToLowercase(s))
    [] field = "user" -> Get(idx.user_lower_exact, ToLowercase(s))
    [] field = "service" -> Get(idx.service_lower_exact, ToLowercase(s))
    [] field = "host" -> Get(idx.host_exact, s)

StringPrefix(idx, field, s) ==
  CASE field = "tag" -> prefix_search(idx.tag_sorted, s)
    [] field = "title" -> prefix_search(idx.title_sorted, s)
    [] field = "user" -> prefix_search(idx.user_sorted, s)
    [] field = "service" -> prefix_search(idx.service_sorted, s)
    [] field = "host" -> prefix_search(idx.host_sorted, s)

StringPrefixCi(idx, field, s) ==
  CASE field = "tag" -> prefix_search(idx.tag_lower_sorted, ToLowercase(s))
    [] field = "title" -> prefix_search(idx.title_lower_sorted, ToLowercase(s))
    [] field = "user" -> prefix_search(idx.user_lower_sorted, ToLowercase(s))
    [] field = "service" -> prefix_search(idx.service_lower_sorted, ToLowercase(s))
    [] field = "host" -> prefix_search(idx.host_sorted, s)

\* The loop of an IN branch: the elements that convert (as_u64 for a numeric
\* field, as_string otherwise) are looked up, the others are passed over.
InLoop(list, numeric) ==
  LET Convert(v) == IF numeric THEN as_u64(v) ELSE as_string(v)
  IN {Unwrap(Convert(list[i])) :
        i \in {k \in 1..Len(list) : Convert(list[k]) # None}}

execute_string_field(operator, value, idx, field) ==
  CASE operator = "Eq" ->
         IF as_string(value) = None THEN Err("InvalidValue")
         ELSE OkIds(StringExact(idx, field, Unwrap(as_string(value))))
    [] operator = "EqCi" ->
         IF as_string(value) = None THEN Err("InvalidValue")
         ELSE OkIds(StringExactCi(idx, field, Unwrap(as_string(value))))
    [] operator = "Starts" ->
         IF as_string(value) = None THEN Err("InvalidValue")
         ELSE OkIds(StringPrefix(idx, field, Unwrap(as_string(value))))
    [] operator = "StartsCi" ->
         IF as_string(value) = None THEN Err("InvalidValue")
         ELSE OkIds(StringPrefixCi(idx, field, Unwrap(as_string(value))))
    [] operator = "Neq" ->
         IF as_string(value) = None THEN Err("InvalidValue")
         ELSE OkIds(all_contexts(idx) \ StringExact(idx, field, Unwrap(as_string(value))))
    [] operator = "In" ->
         IF as_list(value) = None THEN Err("InvalidValue")
         ELSE OkIds(UNION {StringExact(idx, field, s) :
                             s \in InLoop(Unwrap(as_list(value)), FALSE)})
    [] OTHER -> Err("InvalidOperator")

execute_id(operator, value, idx) ==
  CASE operator = "Eq" ->
         IF as_u64(value) = None THEN Err("InvalidValue")
         ELSE OkIds({Unwrap(as_u64(value))} \cap all_contexts(idx))
    [] operator = "Neq" ->
         IF as_u64(value) = None THEN Err("InvalidValue")
         ELSE OkIds(all_contexts(idx) \ {Unwrap(as_u64(value))})
    [] operator = "In" ->
         IF as_list(value) = None THEN Err("InvalidValue")
         ELSE OkIds(UNION {{id} \cap all_contexts(idx) :
                             id \in InLoop(Unwrap(as_list(value)), TRUE)})
    [] OTHER -> Err("InvalidOperator")

execute_label(operator, value, idx) ==
  CASE operator = "Eq" ->
         IF as_string(value) = None THEN Err("InvalidValue")
         ELSE OkIds(Get(idx.label_exact, Unwrap(as_string(value))))
    [] operator = "Neq" ->
         IF as_string(value) = None THEN Err("InvalidValue")
         ELSE OkIds(all_contexts(idx) \ Get(idx.label_exact, Unwrap(as_string(value))))
    [] operator = "In" ->
         IF as_list(value) = None THEN Err("InvalidValue")
         ELSE OkIds(UNION {Get(idx.label_exact, s) :
                             s \in InLoop(Unwrap(as_list(value)), FALSE)})
    [] OTHER -> Err("InvalidOperator")

execute_trace_id(operator, value, idx) ==
  CASE operator = "Eq" ->
         IF as_string(value) = None THEN Err("InvalidValue")
         ELSE OkIds(Get(idx.trace_id_exact, Unwrap(as_string(value))))
    [] operator = "Neq" ->
         IF as_string(value) = None THEN Err("InvalidValue")
         ELSE OkIds(all_contexts(idx) \ Get(idx.trace_id_exact, Unwrap(as_string(value))))
    [] OTHER -> Err("InvalidOperator")

execute_parent(operator, value, idx) ==
  CASE operator = "Eq" ->
         IF as_u64(value) = None THEN Err("InvalidValue")
         ELSE OkIds(Get(idx.parent_exact, Unwrap(as_u64(value))))
    [] operator = "Neq" ->
         IF as_u64(value) = None THEN Err("InvalidValue")
         ELSE OkIds(all_contexts(idx) \ Get(idx.parent_exact, Unwrap(as_u64(value))))
    [] operator = "In" ->
         IF as_list(value) = None THEN Err("InvalidValue")
         ELSE OkIds(UNION {Get(idx.parent_exact, id) :
                             id \in InLoop(Unwrap(as_list(value)), TRUE)})
    [] OTHER -> Err("InvalidOperator")

execute_root(operator, value, idx) ==
  CASE operator = "Eq" ->
         IF as_u64(value) = None THEN Err("InvalidValue")
         ELSE OkIds(Get(idx.root_exact, Unwrap(as_u64(value))))
    [] operator = "Neq" ->
         IF as_u64(value) = None THEN Err("InvalidValue")
         ELSE OkIds(all_contexts(idx) \ Get(idx.root_exact, Unwrap(as_u64(value))))
    [] operator = "In" ->
         IF as_list(value) = None THEN Err("InvalidValue")
         ELSE OkIds(UNION {Get(idx.root_exact, id) :
                             id \in InLoop(Unwrap(as_list(value)), TRUE)})
    [] OTHER -> Err("InvalidOperator")

\* The value of a run of ASCII digits.
RECURSIVE Decimal(_)
Decimal(digits) ==
  IF digits = <<>> THEN 0
  ELSE 10 * Decimal(SubSeq(digits, 1, Len(digits) - 1)) + (digits[Len(digits)] - 48)

IsDigits(s) == s # <<>> /\ \A i \in 1..Len(s) : s[i] \in 48..57

\* The regex ^-(\d+)([hdm])$ ('-' 45, 'h' 104, 'd' 100, 'm' 109), then
\* now - amount * unit in milliseconds; `now` is the system clock's reading.
\* A difference below zero does not exist in u64: the subtraction overflows.
parse_relative_date(s, now) ==
  IF ~(/\ Len(s) >= 3
       /\ s[1] = 45
       /\ IsDigits(SubSeq(s, 2, Len(s) - 1))
       /\ s[Len(s)] \in {104, 100, 109})
  THEN [ok |-> FALSE, ts |-> 0, error_type |-> "InvalidValue"]
  ELSE LET amount == Decimal(SubSeq(s, 2, Len(s) - 1))
           unit == s[Len(s)]
           millis == CASE unit = 104 -> amount * 60 * 60 * 1000
                       [] unit = 100 -> amount * 24 * 60 * 60 * 1000
                       [] unit = 109 -> amount * 60 * 1000
       IN IF millis > now
          THEN [ok |-> FALSE, ts |-> 0, error_type |-> "SubtractOverflow"]
          ELSE [ok |-> TRUE, ts |-> now - millis, error_type |-> "none"]

\* parse_absolute_date on the date-only format "YYYY-MM-DD" (chrono's
\* NaiveDate, midnight UTC); the strings of this model hold no RFC 3339
\* timestamp.
parse_absolute_date(s) ==
  LET y == Decimal(SubSeq(s, 1, 4))
      m == Decimal(SubSeq(s, 6, 7))
      d == Decimal(SubSeq(s, 9, 10))
      daysInMonth ==
        IF m = 2 THEN (IF y % 4 = 0 /\ (y % 100 # 0 \/ y % 400 = 0) THEN 29 ELSE 28)
        ELSE IF m \in {4, 6, 9, 11} THEN 30 ELSE 31
      yy == IF m <= 2 THEN y - 1 ELSE y
      era == yy \div 400
      yoe == yy - era * 400
      mp == IF m > 2 THEN m - 3 ELSE m + 9
      doy == (153 * mp + 2) \div 5 + d - 1
      doe == yoe * 365 + yoe \div 4 - yoe \div 100 + doy
      days == era * 146097 + doe - 719468
  IN IF /\ Len(s) = 10
        /\ s[5] = 45 /\ s[8] = 45
        /\ IsDigits(SubSeq(s, 1, 4)) /\ IsDigits(SubSeq(s, 6, 7))
        /\ IsDigits(SubSeq(s, 9, 10))
        /\ m \in 1..12
        /\ d \in 1..daysInMonth
     THEN [ok |-> TRUE, ts |-> days * 86400000, error_type |-> "none"]
     ELSE [ok |-> FALSE, ts |-> 0, error_type |-> "InvalidValue"]

\* Parse a date value (relative or absolute) into a Unix timestamp in ms.
parse_date_value(value, now) ==
  CASE value.type = "date" ->
         IF value.relative THEN parse_relative_date(value.value, now)
         ELSE parse_absolute_date(value.value)
    [] value.type = "string" ->
         IF parse_relative_date(value.value, now).error_type # "InvalidValue"
         THEN parse_relative_date(value.value, now)
         ELSE parse_absolute_date(value.value)
    [] value.type = "number" ->
         [ok |-> TRUE, ts |-> Unwrap(as_u64(value)), error_type |-> "none"]
    [] OTHER -> [ok |-> FALSE, ts |-> 0, error_type |-> "InvalidValue"]

execute_created(operator, value, idx, now) ==
  LET parsed == parse_date_value(value, now)
      timestamp == parsed.ts
  IN IF ~parsed.ok THEN Err(parsed.error_type)
     ELSE CASE operator = "Eq" -> OkIds(Get(idx.created_btree, timestamp))
            [] operator = "Neq" -> OkIds(all_contexts(idx) \ Get(idx.created_btree, timestamp))
            [] operator = "Gt" -> OkIds({e[2] : e \in {x \in idx.created_btree : x[1] > timestamp}})
            [] operator = "Gte" -> OkIds({e[2] : e \in {x \in idx.created_btree : x[1] >= timestamp}})
            [] operator = "Lt" -> OkIds({e[2] : e \in {x \in idx.created_btree : x[1] < timestamp}})
            [] operator = "Lte" -> OkIds({e[2] : e \in {x \in idx.created_btree : x[1] <= timestamp}})
            [] OTHER -> Err("InvalidOperator")

\* `as u32` keeps the low 32 bits; the numbers of this model are below 2^31,
\* where the cast keeps the value.
execute_depth(operator, value, idx) ==
  IF as_u64(value) = None THEN Err("InvalidValue")
  ELSE LET depth == Unwrap(as_u64(value))
       IN CASE operator = "Eq" -> OkIds(Get(idx.depth_btree, depth))
            [] operator = "Neq" -> OkIds(all_contexts(idx) \ Get(idx.depth_btree, depth))
            [] operator = "Gt" -> OkIds({e[2] : e \in {x \in idx.depth_btree : x[1] > depth}})
            [] operator = "Gte" -> OkIds({e[2] : e \in {x \in idx.depth_btree : x[1] >= depth}})
            [] operator = "Lt" -> OkIds({e[2] : e \in {x \in idx.depth_btree : x[1] < depth}})
            [] operator = "Lte" -> OkIds({e[2] : e \in {x \in idx.depth_btree : x[1] <= depth}})
            [] OTHER -> Err("InvalidOperator")

\* "true" = <<116, 114, 117, 101>>
execute_is_live(operator, value, live_contexts, idx) ==
  IF value.type # "string" THEN Err("InvalidValue")
  ELSE LET is_live == value.value = <<116, 114, 117, 101>>
       IN IF operator = "Eq"
          THEN IF is_live THEN OkIds(live_contexts)
               ELSE OkIds(all_contexts(idx) \ live_contexts)
          ELSE Err("InvalidOperator")

execute_comparison(field, operator, value, idx, live_contexts, now) ==
  IF from_str(field) = None THEN Err("UnknownField")
  ELSE CASE field = "id" -> execute_id(operator, value, idx)
         [] field \in {"tag", "title", "user", "service", "host"} ->
              execute_string_field(operator, value, idx, field)
         [] field = "label" -> execute_label(operator, value, idx)
         [] field = "trace_id" -> execute_trace_id(operator, value, idx)
         [] field = "parent" -> execute_parent(operator, value, idx)
         [] field = "root" -> execute_root(operator, value, idx)
         [] field = "created" -> execute_created(operator, value, idx, now)
         [] field = "depth" -> execute_depth(operator, value, idx)
         [] field = "is_live" -> execute_is_live(operator, value, live_contexts, idx)

\* NOT that hands back the inner result.
NotResultKept(idx, inner_result) == inner_result

\* The Not branch: all_contexts().difference(&inner_result)
NotResult(idx, inner_result) == all_contexts(idx) \ inner_result

\* AND that keeps the left operand's result.
AndResultLeft(left_result, right_result) == left_result

\* The And branch: left_result.intersection(&right_result)
AndResult(left_result, right_result) == left_result \cap right_result

\* Execute a CQL expression against the secondary indexes.
RECURSIVE execute(_, _, _, _)
execute(expr, idx, live_contexts, now) ==
  CASE expr.type = "and" ->
         LET left_result == execute(expr.left, idx, live_contexts, now)
             right_result == execute(expr.right, idx, live_contexts, now)
         IN IF ~left_result.ok THEN left_result
            ELSE IF ~right_result.ok THEN right_result
            ELSE OkIds(AndResult(left_result.ids, right_result.ids))
    [] expr.type = "or" ->
         LET left_result == execute(expr.left, idx, live_contexts, now)
             right_result == execute(expr.right, idx, live_contexts, now)
         IN IF ~left_result.ok THEN left_result
            ELSE IF ~right_result.ok THEN right_result
            ELSE OkIds(left_result.ids \cup right_result.ids)
    [] expr.type = "not" ->
         LET inner_result == execute(expr.inner, idx, live_contexts, now)
         IN IF ~inner_result.ok THEN inner_result
            ELSE OkIds(NotResult(idx, inner_result.ids))
    [] expr.type = "comparison" ->
         execute_comparison(expr.field, expr.operator, expr.value, idx,
                            live_contexts, now)

\* ------------------------------------------------------ CQL engine: inputs
\* The metadata the store extracts from a context's first turn.  The strings
\* mix cases so that byte order and lowercase order differ:
\* "A" 65, "B" 66, "a" 97, "b" 98.
Metadatas ==
  << [client_tag |-> Some(<<97, 98>>), title |-> Some(<<65, 98>>),
      labels |-> Some(<< <<97>>, <<98>> >>),
      provenance |-> Some(
        [on_behalf_of |-> Some(<<66>>), service_name |-> Some(<<97, 98>>),
         host_name |-> Some(<<65, 98>>), trace_id |-> Some(<<97>>),
         parent_context_id |-> Some(1), root_context_id |-> Some(1)])],
     [client_tag |-> Some(<<65, 98>>), title |-> Some(<<98>>),
      labels |-> Some(<< <<98>> >>),
      provenance |-> Some(
        [on_behalf_of |-> Some(<<97, 98>>), service_name |-> Some(<<66>>),
         host_name |-> Some(<<98>>), trace_id |-> None,
         parent_context_id |-> None, root_context_id |-> Some(2)])],
     [client_tag |-> Some(<<66>>), title |-> None, labels |-> None,
      provenance |-> None] >>

\* The contexts that get indexed; a session may be live for others too.
ContextIds == {1, 2}

\* created_at_unix_ms and head_depth as add_context receives them.
AddHeads ==
  { [created_at_unix_ms |-> 5, head_depth |-> 0],
    [created_at_unix_ms |-> 7, head_depth |-> 1] }

\* context_metadata_cache at startup, in the iteration orders of the HashMap.
Caches ==
  { << <<1, Some(Metadatas[1])>>, <<2, Some(Metadatas[2])>> >>,
    << <<2, Some(Metadatas[2])>>, <<1, Some(Metadatas[1])>> >>,
    << <<2, None>>, <<1, Some(Metadatas[3])>> >> }

\* The head table at startup: ContextHead records.
HeadLists ==
  { << [context_id |-> 1, created_at_unix_ms |-> 5, head_depth |-> 0],
       [context_id |-> 2, created_at_unix_ms |-> 7, head_depth |-> 1] >>,
    << [context_id |-> 2, created_at_unix_ms |-> 5, head_depth |-> 2] >> }

\* The live sets the session tracker reports; context 3 is never indexed.
Lives == {{1}, {1, 3}}

\* The system clock at a search, in ms: two hours after the epoch.
Clock == {7200000}

NoContext == [metadata |-> None, head |-> None]

NoAnswer == [asked |-> FALSE, expr |-> "none", live_contexts |-> {}, now |-> 0,
             result |-> OkIds({})]

\* ----------------------------------------------------- CQL engine: actions
\* The store adds a context to the indexes (add_context), re-sort included.
AddContext(context_id, metadata, head) ==
  /\ calls < MaxCalls
  /\ ~answer.asked
  /\ indexes' = add_context(indexes, context_id, metadata,
                            head.created_at_unix_ms, head.head_depth)
  /\ latest' = [latest EXCEPT ![context_id] =
                  [metadata |-> IF metadata = None THEN @.metadata ELSE metadata,
                   head |-> Some(head)]]
  /\ supplied' = supplied \cup {<<context_id, m>> : m \in metadata}
  /\ calls' = calls + 1
  /\ UNCHANGED <<answer, storeVars, wireVars>>

\* The store builds the indexes from its cache and head table.
BuildFromCache(metadata_cache, heads_) ==
  /\ calls < MaxCalls
  /\ ~answer.asked
  /\ indexes' = build_from_cache(indexes, metadata_cache, heads_)
  /\ latest' =
       [c \in ContextIds |->
          [metadata |->
             IF \E i \in 1..Len(metadata_cache) :
                  metadata_cache[i][1] = c /\ metadata_cache[i][2] # None
             THEN metadata_cache[Max({i \in 1..Len(metadata_cache) :
                    metadata_cache[i][1] = c /\ metadata_cache[i][2] # None})][2]
             ELSE latest[c].metadata,
           head |->
             IF \E i \in 1..Len(heads_) : heads_[i].context_id = c
             THEN LET h == heads_[Max({i \in 1..Len(heads_) : heads_[i].context_id = c})]
                  IN Some([created_at_unix_ms |-> h.created_at_unix_ms,
                           head_depth |-> h.head_depth])
             ELSE latest[c].head]]
  /\ supplied' = supplied \cup
       {<<metadata_cache[i][1], Unwrap(metadata_cache[i][2])>> :
          i \in {k \in 1..Len(metadata_cache) : metadata_cache[k][2] # None}}
  /\ calls' = calls + 1
  /\ UNCHANGED <<answer, storeVars, wireVars>>

\* GET /v1/contexts/search: read the live set, execute the query.
Search(expr, live_contexts, now) ==
  /\ ~answer.asked
  /\ answer' = [asked |-> TRUE, expr |-> expr, live_contexts |-> live_contexts,
                now |-> now, result |-> execute(expr, indexes, live_contexts, now)]
  /\ UNCHANGED <<indexes, latest, supplied, calls, storeVars, wireVars>>

\* The response is written.
Respond ==
  /\ answer.asked
  /\ answer' = NoAnswer
  /\ UNCHANGED <<indexes, latest, supplied, calls, storeVars, wireVars>>

IndexOps ==
  \/ \E c \in ContextIds, m \in {None} \cup {Some(Metadatas[i]) : i \in 1..Len(Metadatas)}, h \in AddHeads :
       AddContext(c, m, h)
  \/ \E mc \in Caches, hs \in HeadLists : BuildFromCache(mc, hs)

\* ------------------------------------------------------------------ lexer
\* A query text is the sequence of its characters' codes (ASCII). Position is
\* 1-based line and column and the byte offset.
Position(line, column, offset) == [line |-> line, column |-> column, offset |-> offset]

\* Token { token_type, position }; a String or Ident carries its text, a
\* Number its value (the integer part: every use casts it to u64).
Token(token_type, text, number, position) ==
  [token_type |-> token_type, text |-> text, number |-> number, position |-> position]

\* CqlError { error_type, message, position, field }; the message is its
\* fixed text with, for an unknown field, the name and the list of valid
\* field names that are formatted into it.
CqlError(error_type, message, position, field) ==
  [error_type |-> error_type, message |-> message, position |-> position, field |-> field]

\* A SyntaxError at a position.
SyntaxError(text, position) ==
  CqlError("SyntaxError", [text |-> text, name |-> <<>>, valid_fields |-> <<>>],
           Some(position), None)

\* Result<T, CqlError>; an Ok of the lexer or of the parser comes with the
\* position at which it goes on (`at`).
Good(value, at) == [ok |-> TRUE, value |-> Some(value), at |-> at, error |-> None]
Bad(error) == [ok |-> FALSE, value |-> None, at |-> 0, error |-> Some(error)]

\* Lexer::advance: one character on; a newline (10) starts a line.
LexAdvance(input, lx) ==
  IF lx.offset >= Len(input) THEN lx
  ELSE IF input[lx.offset + 1] = 10 THEN Position(lx.line + 1, 1, lx.offset + 1)
  ELSE Position(lx.line, lx.column + 1, lx.offset + 1)

\* while let Some(ch) = self.peek() { if <ch in chars> { self.advance() } else { break } }
RECURSIVE SkipWhile(_, _, _)
SkipWhile(input, lx, chars) ==
  IF lx.offset < Len(input) /\ input[lx.offset + 1] \in chars
  THEN SkipWhile(input, LexAdvance(input, lx), chars)
  ELSE lx

\* char::is_whitespace, is_ascii_digit, is_alphabetic on ASCII.
Chars(class) ==
  CASE class = "whitespace" -> {9, 10, 11, 12, 13, 32}
    [] class = "ascii_digit" -> 48..57
    [] class = "alphabetic" -> (65..90) \cup (97..122)

\* The loop of read_string, after the opening quote: `value` is the text so
\* far. Escapes: \n, \t, \r; any other escaped character stands for itself.
RECURSIVE read_string(_, _, _, _, _)
read_string(input, start_pos, quote, lx, value) ==
  IF lx.offset >= Len(input)
  THEN Bad(SyntaxError("Unterminated string", start_pos))
  ELSE LET ch == input[lx.offset + 1]
           after == LexAdvance(input, lx)
       IN IF ch = quote THEN Good(Token("String", value, 0, start_pos), after)
          ELSE IF ch = 92
          THEN IF after.offset >= Len(input)
               THEN Bad(SyntaxError("Unterminated escape sequence", after))
               ELSE LET e == input[after.offset + 1]
                        c == CASE e = 110 -> 10 [] e = 116 -> 9 [] e = 114 -> 13
                               [] OTHER -> e
                    IN read_string(input, start_pos, quote,
                                   LexAdvance(input, after), Append(value, c))
          ELSE read_string(input, start_pos, quote, after, Append(value, ch))

\* read_number: an optional '-', the integer digits, an optional '.' and
\* fraction digits; the text is parsed as f64, 0.0 if that fails.
read_number(input, lx) ==
  LET signed == IF lx.offset < Len(input) /\ input[lx.offset + 1] = 45
                THEN LexAdvance(input, lx) ELSE lx
      whole == SkipWhile(input, signed, Chars("ascii_digit"))
      end == IF whole.offset < Len(input) /\ input[whole.offset + 1] = 46
             THEN SkipWhile(input, LexAdvance(input, whole), Chars("ascii_digit")) ELSE whole
      magnitude == Decimal(SubSeq(input, signed.offset + 1, whole.offset))
      value == IF signed = lx THEN magnitude ELSE 0 - magnitude
  IN Good(Token("Number", <<>>, value, lx), end)

\* read_identifier: letters, digits and '_'; AND, OR, NOT and IN in any case
\* are keywords (the text is uppercased before the comparison).
read_identifier(input, lx) ==
  LET end == SkipWhile(input, lx, Chars("alphabetic") \cup Chars("ascii_digit") \cup {95})
      value == SubSeq(input, lx.offset + 1, end.offset)
      upper == [i \in 1..Len(value) |->
                  IF value[i] \in 97..122 THEN value[i] - 32 ELSE value[i]]
      token_type == CASE upper = <<65, 78, 68>> -> "And"
                      [] upper = <<79, 82>> -> "Or"
                      [] upper = <<78, 79, 84>> -> "Not"
                      [] upper = <<73, 78>> -> "In"
                      [] OTHER -> "Ident"
  IN Good(Token(token_type, IF token_type = "Ident" THEN value ELSE <<>>, 0, lx), end)

next_token(input, from) ==
  LET lx == SkipWhile(input, from, Chars("whitespace"))
      one == LexAdvance(input, lx)
      two == LexAdvance(input, one)
      three == LexAdvance(input, two)
      At(l, ch) == l.offset < Len(input) /\ input[l.offset + 1] = ch
      ch == input[lx.offset + 1]
  IN IF lx.offset >= Len(input) THEN Good(Token("Eof", <<>>, 0, lx), lx)
     ELSE CASE ch \in {34, 39} -> read_string(input, lx, ch, one, <<>>)
            [] ch \in Chars("ascii_digit")
               \/ (ch = 45 /\ Len(input) - lx.offset > 1
                   /\ input[lx.offset + 2] \in Chars("ascii_digit")) -> read_number(input, lx)
            [] ch \in Chars("alphabetic") \cup {95} -> read_identifier(input, lx)
            [] ch = 40 -> Good(Token("LParen", <<>>, 0, lx), one)
            [] ch = 41 -> Good(Token("RParen", <<>>, 0, lx), one)
            [] ch = 44 -> Good(Token("Comma", <<>>, 0, lx), one)
            [] ch = 61 -> Good(Token("Eq", <<>>, 0, lx), one)
            [] ch = 33 -> IF At(one, 61) THEN Good(Token("Neq", <<>>, 0, lx), two)
                          ELSE Bad(SyntaxError("Expected '=' after '!'", lx))
            [] ch = 94 -> IF At(one, 126)
                          THEN IF At(two, 61)
                               THEN Good(Token("StartsCi", <<>>, 0, lx), three)
                               ELSE Bad(SyntaxError("Expected '=' after '^~'", lx))
                          ELSE IF At(one, 61)
                          THEN Good(Token("Starts", <<>>, 0, lx), two)
                          ELSE Bad(SyntaxError("Expected '=' or '~=' after '^'", lx))
            [] ch = 126 -> IF At(one, 61) THEN Good(Token("EqCi", <<>>, 0, lx), two)
                           ELSE Bad(SyntaxError("Expected '=' after '~'", lx))
            [] ch = 62 -> IF At(one, 61) THEN Good(Token("Gte", <<>>, 0, lx), two)
                          ELSE Good(Token("Gt", <<>>, 0, lx), one)
            [] ch = 60 -> IF At(one, 61) THEN Good(Token("Lte", <<>>, 0, lx), two)
                          ELSE Good(Token("Lt", <<>>, 0, lx), one)
            [] OTHER -> Bad(SyntaxError("Unexpected character", lx))

\* tokenize: tokens up to and including Eof, or the first error.
RECURSIVE tokenize(_, _, _)
tokenize(input, lx, tokens) ==
  LET next == next_token(input, lx)
  IN IF ~next.ok THEN next
     ELSE IF Unwrap(next.value).token_type = "Eof"
     THEN Good(Append(tokens, Unwrap(next.value)), next.at)
     ELSE tokenize(input, next.at, Append(tokens, Unwrap(next.value)))

\* FieldName::all with as_str: each name's text and the name.
FieldNames ==
  <<<<<<105, 100>>, "id">>,
     <<<<116, 97, 103>>, "tag">>,
     <<<<116, 105, 116, 108, 101>>, "title">>,
     <<<<108, 97, 98, 101, 108>>, "label">>,
     <<<<117, 115, 101, 114>>, "user">>,
     <<<<115, 101, 114, 118, 105, 99, 101>>, "service">>,
     <<<<104, 111, 115, 116>>, "host">>,
     <<<<116, 114, 97, 99, 101, 95, 105, 100>>, "trace_id">>,
     <<<<112, 97, 114, 101, 110, 116>>, "parent">>,
     <<<<114, 111, 111, 116>>, "root">>,
     <<<<99, 114, 101, 97, 116, 101, 100>>, "created">>,
     <<<<100, 101, 112, 116, 104>>, "depth">>,
     <<<<105, 115, 95, 108, 105, 118, 101>>, "is_live">>>>

\* A from_str that takes every text for the field id.
FieldOfAny(text) == Some("id")

\* FieldName::from_str on a text.
FieldOf(text) ==
  IF \E i \in 1..Len(FieldNames) : FieldNames[i][1] = text
  THEN Some(FieldNames[CHOOSE i \in 1..Len(FieldNames) : FieldNames[i][1] = text][2])
  ELSE None

\* ----------------------------------------------------------------- parser
\* The parser's position is an index into the tokens, from 0.
\* Parser::current: the token at pos, or an Eof at line 1, column 1.
current(tokens, pos) ==
  IF pos < Len(tokens) THEN tokens[pos + 1]
  ELSE Token("Eof", <<>>, 0, Position(1, 1, 0))

\* Parser::advance: one token on, unless at Eof.
advance(tokens, pos) ==
  IF current(tokens, pos).token_type # "Eof" THEN pos + 1 ELSE pos

parse_value(tokens, pos) ==
  LET token == current(tokens, pos)
      s == token.text
  IN CASE token.token_type = "String" ->
            IF /\ Len(s) >= 3
               /\ s[1] = 45
               /\ IsDigits(SubSeq(s, 2, Len(s) - 1))
               /\ s[Len(s)] \in {104, 100, 109}
            THEN Good(DateValue(s, TRUE), advance(tokens, pos))
            ELSE Good(StringValue(s), advance(tokens, pos))
       [] token.token_type = "Number" ->
            Good(NumberValue(token.number), advance(tokens, pos))
       [] token.token_type = "Ident"
          /\ ToLowercase(s) \in {<<116, 114, 117, 101>>, <<102, 97, 108, 115, 101>>} ->
            Good(StringValue(ToLowercase(s)), advance(tokens, pos))
       [] OTHER -> Bad(SyntaxError("Expected value", current(tokens, pos).position))

\* The loop of parse_list after the first value: a comma, then a value.
RECURSIVE ListLoop(_, _, _)
ListLoop(tokens, values, pos) ==
  LET Then(next) ==
        IF ~next.ok THEN next
        ELSE ListLoop(tokens, Append(values, Unwrap(next.value)), next.at)
  IN IF current(tokens, pos).token_type = "Comma"
     THEN Then(parse_value(tokens, advance(tokens, pos)))
     ELSE Good(values, pos)

parse_list(tokens, pos) ==
  LET Close(rest) ==
        IF ~rest.ok THEN rest
        ELSE IF current(tokens, rest.at).token_type # "RParen"
        THEN Bad(SyntaxError("Expected ')' after list values",
                             current(tokens, rest.at).position))
        ELSE Good(ListValue(Unwrap(rest.value)), advance(tokens, rest.at))
      Rest(first) ==
        IF ~first.ok THEN first
        ELSE Close(ListLoop(tokens, <<Unwrap(first.value)>>, first.at))
  IN IF current(tokens, pos).token_type # "LParen"
     THEN Bad(SyntaxError("Expected '(' after IN", current(tokens, pos).position))
     ELSE Rest(parse_value(tokens, advance(tokens, pos)))

\* The comparison keeps the field name's text.
parse_comparison(tokens, pos) ==
  LET field_token == current(tokens, pos)
      field_name == field_token.text
      after_field == advance(tokens, pos)
      op_token == current(tokens, after_field)
      after_op == advance(tokens, after_field)
      Finish(value) ==
        IF ~value.ok THEN value
        ELSE Good(Comparison(field_name, op_token.token_type, Unwrap(value.value)),
                  value.at)
  IN IF field_token.token_type # "Ident"
     THEN Bad(SyntaxError("Expected field name", current(tokens, pos).position))
     ELSE IF FieldOf(field_name) = None
     THEN Bad(CqlError("UnknownField",
                       [text |-> "Unknown field", name |-> field_name,
                        valid_fields |->
                          [i \in 1..Len(FieldNames) |-> FieldNames[i][1]]],
                       Some(field_token.position), Some(field_name)))
     ELSE IF op_token.token_type \notin {"Eq", "Neq", "Starts", "EqCi", "StartsCi",
                                         "Gt", "Gte", "Lt", "Lte", "In"}
     THEN Bad(SyntaxError("Expected operator", current(tokens, after_field).position))
     ELSE IF op_token.token_type = "In" THEN Finish(parse_list(tokens, after_op))
     ELSE Finish(parse_value(tokens, after_op))

RECURSIVE parse_or_expr(_, _), OrLoop(_, _, _), parse_and_expr(_, _),
          AndLoop(_, _, _), parse_unary_expr(_, _), parse_primary(_, _)

parse_primary(tokens, pos) ==
  LET Close(expr) ==
        IF ~expr.ok THEN expr
        ELSE IF current(tokens, expr.at).token_type # "RParen"
        THEN Bad(SyntaxError("Expected ')' after expression",
                             current(tokens, expr.at).position))
        ELSE Good(Unwrap(expr.value), advance(tokens, expr.at))
  IN IF current(tokens, pos).token_type = "LParen"
     THEN Close(parse_or_expr(tokens, advance(tokens, pos)))
     ELSE parse_comparison(tokens, pos)

\* On NOT: the next token on, a primary, and Not around it.
parse_unary_expr(tokens, pos) ==
  LET negated == current(tokens, pos).token_type = "Not"
      Wrap(inner) ==
        IF negated /\ inner.ok THEN Good(Not(Unwrap(inner.value)), inner.at)
        ELSE inner
  IN Wrap(parse_primary(tokens, IF negated THEN advance(tokens, pos) ELSE pos))

\* The loop of parse_and_expr: while an AND follows, left = And(left, right).
AndLoop(tokens, left, pos) ==
  LET Then(right) ==
        IF ~right.ok THEN right
        ELSE AndLoop(tokens, And(left, Unwrap(right.value)), right.at)
  IN IF current(tokens, pos).token_type = "And"
     THEN Then(parse_unary_expr(tokens, advance(tokens, pos)))
     ELSE Good(left, pos)

parse_and_expr(tokens, pos) ==
  LET Then(left) ==
        IF ~left.ok THEN left ELSE AndLoop(tokens, Unwrap(left.value), left.at)
  IN Then(parse_unary_expr(tokens, pos))

\* An OR loop whose right operand is a unary expression, so that AND does not
\* bind tighter than OR.
OrLoopTight(tokens, left, pos) ==
  LET Then(right) ==
        IF ~right.ok THEN right
        ELSE OrLoop(tokens, Or(left, Unwrap(right.value)), right.at)
  IN IF current(tokens, pos).token_type = "Or"
     THEN Then(parse_unary_expr(tokens, advance(tokens, pos)))
     ELSE Good(left, pos)

\* The loop of parse_or_expr: while an OR follows, left = Or(left, right).
OrLoop(tokens, left, pos) ==
  LET Then(right) ==
        IF ~right.ok THEN right
        ELSE OrLoop(tokens, Or(left, Unwrap(right.value)), right.at)
  IN IF current(tokens, pos).token_type = "Or"
     THEN Then(parse_and_expr(tokens, advance(tokens, pos)))
     ELSE Good(left, pos)

parse_or_expr(tokens, pos) ==
  LET Then(left) ==
        IF ~left.ok THEN left ELSE OrLoop(tokens, Unwrap(left.value), left.at)
  IN Then(parse_and_expr(tokens, pos))

\* Parser::parse: tokenize, refuse an empty query, parse an expression,
\* refuse anything after it; Ok(CqlQuery { raw, ast }) otherwise.
parse(input) ==
  LET Finish(tokens, ast) ==
        IF ~ast.ok THEN ast
        ELSE IF current(tokens, ast.at).token_type # "Eof"
        THEN Bad(SyntaxError("Unexpected token after expression",
                             current(tokens, ast.at).position))
        ELSE Good([raw |-> input, ast |-> Unwrap(ast.value)], ast.at)
      Parsed(tokens) ==
        IF current(tokens, 0).token_type = "Eof"
        THEN Bad(SyntaxError("Empty query", current(tokens, 0).position))
        ELSE Finish(tokens, parse_or_expr(tokens, 0))
      Lexed(lexed) == IF ~lexed.ok THEN lexed ELSE Parsed(Unwrap(lexed.value))
  IN Lexed(tokenize(input, Position(1, 1, 0), <<>>))

\* The expression as execute reads it: each comparison's field text is looked
\* up by FieldName::from_str; a text that is no field name stays unknown.
RECURSIVE Named(_)
Named(expr) ==
  CASE expr.type = "and" -> And(Named(expr.left), Named(expr.right))
    [] expr.type = "or" -> Or(Named(expr.left), Named(expr.right))
    [] expr.type = "not" -> Not(Named(expr.inner))
    [] OTHER -> Comparison(IF FieldOf(expr.field) = None THEN "unknown"
                           ELSE Unwrap(FieldOf(expr.field)),
                           expr.operator, expr.value)

\* --------------------------------------------------------------- protocol
\* A byte string: the bytes written out, followed by `zeros` bytes of value
\* 0 (a payload of 64 MiB is not written out byte by byte).
Length(b) == Len(b.bytes) + b.zeros
Explicit(b) == b.bytes \o [i \in 1..b.zeros |-> 0]

\* StoreError::Io
Io(w) == [kind |-> "Io", why |-> w, turn_id |-> 0, depth |-> 0, hash |-> <<>>]

\* Maximum frame payload size (64 MB).
MAX_FRAME_SIZE == 67108864

\* A read that returns what the stream still has when it ends early.
TakeAvailable(b, n) ==
  IF n <= Len(b.bytes)
  THEN Good([bytes |-> SubSeq(b.bytes, 1, n), zeros |-> 0],
            [bytes |-> SubSeq(b.bytes, n + 1, Len(b.bytes)), zeros |-> b.zeros])
  ELSE IF n <= Length(b)
  THEN Good([bytes |-> b.bytes, zeros |-> n - Len(b.bytes)],
            [bytes |-> <<>>, zeros |-> b.zeros - (n - Len(b.bytes))])
  ELSE Good(b, [bytes |-> <<>>, zeros |-> 0])

\* Read::read_exact of n bytes from a reader or a cursor: the bytes and the
\* rest, or the io error UnexpectedEof when fewer than n bytes are left.
Take(b, n) ==
  IF n > Length(b) THEN Bad(Io("failed to fill whole buffer"))
  ELSE IF n <= Len(b.bytes)
  THEN Good([bytes |-> SubSeq(b.bytes, 1, n), zeros |-> 0],
            [bytes |-> SubSeq(b.bytes, n + 1, Len(b.bytes)), zeros |-> b.zeros])
  ELSE Good([bytes |-> b.bytes, zeros |-> n - Len(b.bytes)],
            [bytes |-> <<>>, zeros |-> b.zeros - (n - Len(b.bytes))])

\* LittleEndian: the number that bytes stand for, least significant first.
\* A number of 2^31 - 1 or more is read as 2^31 - 1: it is more than
\* MAX_FRAME_SIZE and more than the length of any byte string here, which
\* is all the protocol does with a number that large.
RECURSIVE LittleEndian(_)
LittleEndian(bytes) ==
  IF bytes = <<>> THEN 0
  ELSE LET rest == LittleEndian(Tail(bytes))
       IN IF rest > (2147483647 - Head(bytes)) \div 256 THEN 2147483647
          ELSE Head(bytes) + 256 * rest

\* write_u16 / write_u32 / write_u64::<LittleEndian>: the `width` bytes of n.
RECURSIVE ToLittleEndian(_, _)
ToLittleEndian(n, width) ==
  IF width = 0 THEN <<>>
  ELSE <<n % 256>> \o ToLittleEndian(n \div 256, width - 1)

\* read_u16 / read_u32 / read_u64::<LittleEndian>: read_exact of `width`
\* bytes, then the number they stand for.
read_uint(b, width) ==
  LET taken == Take(b, width)
  IN IF ~taken.ok THEN taken
     ELSE Good(LittleEndian(Explicit(Unwrap(taken.value))), taken.at)

\* String::from_utf8(bytes).is_ok(): the bytes are well-formed UTF-8.
RECURSIVE from_utf8(_)
from_utf8(s) ==
  IF s = <<>> THEN TRUE
  ELSE LET Cont(i, lo, hi) == Len(s) >= i /\ s[i] >= lo /\ s[i] <= hi
           Rest(n) == from_utf8(SubSeq(s, n + 1, Len(s)))
       IN IF s[1] < 128 THEN Rest(1)
          ELSE IF s[1] \in 194..223 THEN Cont(2, 128, 191) /\ Rest(2)
          ELSE IF s[1] = 224 THEN Cont(2, 160, 191) /\ Cont(3, 128, 191) /\ Rest(3)
          ELSE IF s[1] = 237 THEN Cont(2, 128, 159) /\ Cont(3, 128, 191) /\ Rest(3)
          ELSE IF s[1] \in 225..239 THEN Cont(2, 128, 191) /\ Cont(3, 128, 191) /\ Rest(3)
          ELSE IF s[1] = 240
          THEN Cont(2, 144, 191) /\ Cont(3, 128, 191) /\ Cont(4, 128, 191) /\ Rest(4)
          ELSE IF s[1] \in 241..243
          THEN Cont(2, 128, 191) /\ Cont(3, 128, 191) /\ Cont(4, 128, 191) /\ Rest(4)
          ELSE IF s[1] = 244
          THEN Cont(2, 128, 143) /\ Cont(3, 128, 191) /\ Cont(4, 128, 191) /\ Rest(4)
          ELSE FALSE

\* read_frame without the check of len against MAX_FRAME_SIZE.
read_frame_unchecked(reader) ==
  LET len == read_uint(reader, 4)
      msg_type == read_uint(len.at, 2)
      flags == read_uint(msg_type.at, 2)
      req_id == read_uint(flags.at, 8)
      payload == Take(req_id.at, Unwrap(len.value))
  IN IF ~len.ok THEN len
     ELSE IF ~msg_type.ok THEN msg_type
     ELSE IF ~flags.ok THEN flags
     ELSE IF ~req_id.ok THEN req_id
     ELSE IF ~payload.ok THEN payload
     ELSE Good([header |-> [len |-> Unwrap(len.value),
                            msg_type |-> Unwrap(msg_type.value),
                            flags |-> Unwrap(flags.value),
                            req_id |-> Unwrap(req_id.value)],
                payload |-> Unwrap(payload.value)],
               payload.at)

\* read_frame: the header field by field, the length checked as soon as it
\* is read, then the payload; `at` is what the reader still holds (after an
\* io error the reader's position is not specified and is not modelled).
read_frame(reader) ==
  LET len == read_uint(reader, 4)
      msg_type == read_uint(len.at, 2)
      flags == read_uint(msg_type.at, 2)
      req_id == read_uint(flags.at, 8)
      payload == Take(req_id.at, Unwrap(len.value))
  IN IF ~len.ok THEN len
     ELSE IF Unwrap(len.value) > MAX_FRAME_SIZE
     THEN [Bad(InvalidInput("frame size exceeds maximum")) EXCEPT !.at = len.at]
     ELSE IF ~msg_type.ok THEN msg_type
     ELSE IF ~flags.ok THEN flags
     ELSE IF ~req_id.ok THEN req_id
     ELSE IF ~payload.ok THEN payload
     ELSE Good([header |-> [len |-> Unwrap(len.value),
                            msg_type |-> Unwrap(msg_type.value),
                            flags |-> Unwrap(flags.value),
                            req_id |-> Unwrap(req_id.value)],
                payload |-> Unwrap(payload.value)],
               payload.at)

\* write_frame with the flags written before the message type.
write_frame_flags_first(msg_type, flags, req_id, payload) ==
  [bytes |-> ToLittleEndian(Length(payload), 4) \o ToLittleEndian(flags, 2)
             \o ToLittleEndian(msg_type, 2) \o ToLittleEndian(req_id, 8)
             \o payload.bytes,
   zeros |-> payload.zeros]

\* write_frame: what it writes to the writer.
write_frame(msg_type, flags, req_id, payload) ==
  [bytes |-> ToLittleEndian(Length(payload), 4) \o ToLittleEndian(msg_type, 2)
             \o ToLittleEndian(flags, 2) \o ToLittleEndian(req_id, 8)
             \o payload.bytes,
   zeros |-> payload.zeros]

\* parse_ctx_create, and parse_ctx_fork and parse_get_head which call it.
parse_ctx_create(payload) == read_uint(payload, 8)

parse_get_last(payload) ==
  LET context_id == read_uint(payload, 8)
      limit == read_uint(context_id.at, 4)
      include_payload == read_uint(limit.at, 4)
  IN IF ~context_id.ok THEN context_id
     ELSE IF ~limit.ok THEN limit
     ELSE IF ~include_payload.ok THEN include_payload
     ELSE Good([context_id |-> Unwrap(context_id.value),
                limit |-> Unwrap(limit.value),
                include_payload |-> Unwrap(include_payload.value)],
               include_payload.at)

parse_get_blob(payload) ==
  IF Length(payload) # 32 THEN Bad(InvalidInput("invalid blob hash length"))
  ELSE Good(Explicit(payload), [bytes |-> <<>>, zeros |-> 0])

\* Bit 1 of the flags instead of bit 0.
HasFsRootBit1(flags) == (flags \div 2) % 2 # 0

\* flags & 1 != 0: the request carries an fs_root_hash.
HasFsRoot(flags) == flags % 2 # 0

parse_append_turn(payload, flags) ==
  LET context_id == read_uint(payload, 8)
      parent_turn_id == read_uint(context_id.at, 8)
      type_id_len == read_uint(parent_turn_id.at, 4)
      type_id_bytes == Take(type_id_len.at, Unwrap(type_id_len.value))
      declared_type_version == read_uint(type_id_bytes.at, 4)
      encoding == read_uint(declared_type_version.at, 4)
      compression == read_uint(encoding.at, 4)
      uncompressed_len == read_uint(compression.at, 4)
      content_hash == Take(uncompressed_len.at, 32)
      payload_len == read_uint(content_hash.at, 4)
      payload_bytes == Take(payload_len.at, Unwrap(payload_len.value))
      idempotency_len == read_uint(payload_bytes.at, 4)
      idempotency_key == Take(idempotency_len.at, Unwrap(idempotency_len.value))
      hash == Take(idempotency_key.at, 32)
  IN IF ~context_id.ok THEN context_id
     ELSE IF ~parent_turn_id.ok THEN parent_turn_id
     ELSE IF ~type_id_len.ok THEN type_id_len
     ELSE IF ~type_id_bytes.ok THEN type_id_bytes
     ELSE IF ~from_utf8(Explicit(Unwrap(type_id_bytes.value)))
     THEN Bad(InvalidInput("declared_type_id not utf8"))
     ELSE IF ~declared_type_version.ok THEN declared_type_version
     ELSE IF ~encoding.ok THEN encoding
     ELSE IF ~compression.ok THEN compression
     ELSE IF ~uncompressed_len.ok THEN uncompressed_len
     ELSE IF ~content_hash.ok THEN content_hash
     ELSE IF ~payload_len.ok THEN payload_len
     ELSE IF ~payload_bytes.ok THEN payload_bytes
     ELSE IF ~idempotency_len.ok THEN idempotency_len
     ELSE IF ~idempotency_key.ok THEN idempotency_key
     ELSE IF HasFsRoot(flags) /\ ~hash.ok THEN hash
     ELSE Good([context_id |-> Unwrap(context_id.value),
                parent_turn_id |-> Unwrap(parent_turn_id.value),
                declared_type_id |-> Explicit(Unwrap(type_id_bytes.value)),
                declared_type_version |-> Unwrap(declared_type_version.value),
                encoding |-> Unwrap(encoding.value),
                compression |-> Unwrap(compression.value),
                uncompressed_len |-> Unwrap(uncompressed_len.value),
                content_hash |-> Explicit(Unwrap(content_hash.value)),
                payload_bytes |-> Unwrap(payload_bytes.value),
                idempotency_key |-> Unwrap(idempotency_key.value),
                fs_root_hash |-> IF HasFsRoot(flags)
                                 THEN Some(Explicit(Unwrap(hash.value)))
                                 ELSE None],
               IF HasFsRoot(flags) THEN hash.at ELSE idempotency_key.at)

parse_attach_fs(payload) ==
  LET turn_id == read_uint(payload, 8)
      fs_root_hash == Take(turn_id.at, 32)
  IN IF Length(payload) < 40 THEN Bad(InvalidInput("attach_fs payload too short"))
     ELSE IF ~turn_id.ok THEN turn_id
     ELSE IF ~fs_root_hash.ok THEN fs_root_hash
     ELSE Good([turn_id |-> Unwrap(turn_id.value),
                fs_root_hash |-> Explicit(Unwrap(fs_root_hash.value))],
               fs_root_hash.at)

parse_put_blob(payload) ==
  LET hash == Take(payload, 32)
      data_len == read_uint(hash.at, 4)
      data == Take(data_len.at, Unwrap(data_len.value))
  IN IF Length(payload) < 36 THEN Bad(InvalidInput("put_blob payload too short"))
     ELSE IF ~hash.ok THEN hash
     ELSE IF ~data_len.ok THEN data_len
     ELSE IF ~data.ok THEN data
     ELSE Good([hash |-> Explicit(Unwrap(hash.value)), data |-> Unwrap(data.value)],
               data.at)

parse_hello(payload) ==
  LET protocol_version == read_uint(payload, 2)
      client_tag_len == read_uint(protocol_version.at, 2)
      client_tag_bytes == Take(client_tag_len.at, Unwrap(client_tag_len.value))
      client_meta_json_len == read_uint(client_tag_bytes.at, 4)
      meta_bytes == Take(client_meta_json_len.at, Unwrap(client_meta_json_len.value))
  IN IF Length(payload) = 0
     THEN Good([protocol_version |-> 0, client_tag |-> <<>>, client_meta_json |-> None],
               payload)
     ELSE IF Length(payload) < 4 THEN Bad(InvalidInput("hello payload too short"))
     ELSE IF ~protocol_version.ok THEN protocol_version
     ELSE IF ~client_tag_len.ok THEN client_tag_len
     ELSE IF Length(payload) < 4 + Unwrap(client_tag_len.value) + 4
     THEN Bad(InvalidInput("hello payload truncated"))
     ELSE IF ~client_tag_bytes.ok THEN client_tag_bytes
     ELSE IF ~from_utf8(Explicit(Unwrap(client_tag_bytes.value)))
     THEN Bad(InvalidInput("client_tag not utf8"))
     ELSE IF ~client_meta_json_len.ok THEN client_meta_json_len
     ELSE IF Unwrap(client_meta_json_len.value) = 0
     THEN Good([protocol_version |-> Unwrap(protocol_version.value),
                client_tag |-> Explicit(Unwrap(client_tag_bytes.value)),
                client_meta_json |-> None],
               client_meta_json_len.at)
     ELSE IF ~meta_bytes.ok THEN meta_bytes
     ELSE IF ~from_utf8(Explicit(Unwrap(meta_bytes.value)))
     THEN Bad(InvalidInput("client_meta_json not utf8"))
     ELSE Good([protocol_version |-> Unwrap(protocol_version.value),
                client_tag |-> Explicit(Unwrap(client_tag_bytes.value)),
                client_meta_json |-> Some(Explicit(Unwrap(meta_bytes.value)))],
               meta_bytes.at)

\* The parse function of a request, by the name of its message type
\* (CtxFork and GetHead are parsed by parse_ctx_create).
ParseFns ==
  {"CtxCreate", "CtxFork", "GetHead", "GetLast", "GetBlob", "AppendTurn",
   "AttachFs", "PutBlob", "Hello"}
parse_request(msg, payload, flags) ==
  CASE msg \in {"CtxCreate", "CtxFork", "GetHead"} -> parse_ctx_create(payload)
    [] msg = "GetLast" -> parse_get_last(payload)
    [] msg = "GetBlob" -> parse_get_blob(payload)
    [] msg = "AppendTurn" -> parse_append_turn(payload, flags)
    [] msg = "AttachFs" -> parse_attach_fs(payload)
    [] msg = "PutBlob" -> parse_put_blob(payload)
    [] msg = "Hello" -> parse_hello(payload)

\* No frame has been read from the connection.
NoWire ==
  [stage |-> "idle", msg |-> "none", input |-> [bytes |-> <<>>, zeros |-> 0],
   flags |-> 0, result |-> "none"]

\* Request payloads as a client encodes them, and every prefix of each: an
\* AppendTurn with its variable-length fields of up to MaxField bytes, a
\* type id that is not UTF-8 and one of two bytes, and 0, 31, 32 or 33 bytes
\* after the idempotency key; a Hello, a PutBlob, an AttachFs, a GetLast;
\* and payloads of zeros.
RequestPayloads ==
  LET U(n, width) == ToLittleEndian(n, width)
      Run(n, first) == [i \in 1..n |-> first + i]
      Hash32 == Run(32, 0)
      Fields == {Run(n, 96) : n \in 0..MaxField}
      AppendTurn(type_id, body, key, trailing) ==
        U(1, 8) \o U(0, 8) \o U(Len(type_id), 4) \o type_id \o U(1, 4) \o U(1, 4)
        \o U(0, 4) \o U(Len(body), 4) \o Hash32 \o U(Len(body), 4) \o body
        \o U(Len(key), 4) \o key \o trailing
      Hello(tag, meta) ==
        U(1, 2) \o U(Len(tag), 2) \o tag \o U(Len(meta), 4) \o meta
      Full ==
        {AppendTurn(t, b, k, Run(n, 64)) :
           t \in Fields \cup {<<255>>, <<195, 169>>}, b \in Fields, k \in Fields,
           n \in {0, 31, 32, 33}}
        \cup {Hello(t, m) : t \in Fields \cup {<<255>>}, m \in Fields \cup {<<255>>}}
        \cup {Hash32 \o U(Len(d), 4) \o d : d \in Fields}
        \cup {U(1, 8) \o Hash32, U(1, 8) \o U(10, 4) \o U(1, 4)}
  IN UNION {{[bytes |-> SubSeq(p, 1, n), zeros |-> 0] : n \in 0..Len(p)} : p \in Full}
     \cup {[bytes |-> <<>>, zeros |-> n] : n \in {32, 76, 108, MAX_FRAME_SIZE}}

\* What a connection delivers: whole frames around those payloads, a frame
\* cut at every length and one followed by another, and headers declaring
\* lengths around MAX_FRAME_SIZE with the header cut short, or followed by
\* none, too few, all, or more than the declared bytes.
Streams ==
  LET Header(len) ==
        ToLittleEndian(len, 4) \o ToLittleEndian(5, 2) \o ToLittleEndian(0, 2)
        \o ToLittleEndian(1, 8)
      Lens == {0, 2, MAX_FRAME_SIZE - 1, MAX_FRAME_SIZE, MAX_FRAME_SIZE + 1,
               2 * MAX_FRAME_SIZE, 127 * 16777216}
      Whole == write_frame(6, 0, 258, [bytes |-> ToLittleEndian(1, 8) \o ToLittleEndian(10, 4)
                                                  \o ToLittleEndian(1, 4), zeros |-> 0])
  IN {write_frame(5, flags, 1, p) : flags \in 0..3, p \in RequestPayloads}
     \cup {[bytes |-> SubSeq(Whole.bytes \o Whole.bytes, 1, n), zeros |-> 0] :
             n \in 0..(2 * Len(Whole.bytes))}
     \cup {[bytes |-> SubSeq(Header(len), 1, n), zeros |-> 0] : len \in Lens, n \in 0..15}
     \cup UNION {{[bytes |-> Header(len), zeros |-> n] :
                    n \in {0, 1, len - 1, len, len + 1} \cap Nat} : len \in Lens}

\* A frame is read from the connection.
ReadFrame(stream) ==
  /\ wire.stage = "idle"
  /\ ~parsing.done
  /\ ~answer.asked
  /\ wire' = [stage |-> "frame", msg |-> "none", input |-> stream, flags |-> 0,
              result |-> read_frame(stream)]
  /\ UNCHANGED <<storeVars, cqlVars, parsing, http, sse, s3>>

\* The payload of the frame read is parsed as a request, with the flags of
\* its header.
ParseRequest(msg) ==
  /\ wire.stage = "frame"
  /\ wire.result.ok
  /\ LET frame == Unwrap(wire.result.value)
     IN wire' = [stage |-> "request", msg |-> msg, input |-> frame.payload,
                 flags |-> frame.header.flags,
                 result |-> parse_request(msg, frame.payload, frame.header.flags)]
  /\ UNCHANGED <<storeVars, cqlVars, parsing, http, sse, s3>>

\* The request, or the error, has been dealt with.
NextFrame ==
  /\ wire.stage # "idle"
  /\ wire' = NoWire
  /\ UNCHANGED <<storeVars, cqlVars, parsing, http, sse, s3>>

\* The frames a peer sends: message types, flags and request ids whose bytes
\* differ from one another, and payloads of no byte, of three bytes, of 32
\* zero bytes, of MAX_FRAME_SIZE bytes and of one byte more.
Frames ==
  {[msg_type |-> m, flags |-> f, req_id |-> r, payload |-> p] :
     m \in {5, 65535}, f \in {0, 258}, r \in {0, 16909060},
     p \in {[bytes |-> <<>>, zeros |-> 0], [bytes |-> <<1, 2, 3>>, zeros |-> 0],
            [bytes |-> <<>>, zeros |-> 32], [bytes |-> <<>>, zeros |-> MAX_FRAME_SIZE],
            [bytes |-> <<>>, zeros |-> MAX_FRAME_SIZE + 1]}}

\* What the writer holds after write_frame was called for each of the
\* frames in turn. The run of zeros of a frame that another follows is
\* written out.
RECURSIVE Written(_)
Written(frames) ==
  IF frames = <<>> THEN [bytes |-> <<>>, zeros |-> 0]
  ELSE LET before == Written(SubSeq(frames, 1, Len(frames) - 1))
           last == frames[Len(frames)]
           frame == write_frame(last.msg_type, last.flags, last.req_id, last.payload)
       IN [bytes |-> Explicit(before) \o frame.bytes, zeros |-> frame.zeros]

\* A peer writes frames back to back with write_frame; the bytes arrive.
WriteFrames(frames) ==
  /\ wire.stage = "idle"
  /\ ~parsing.done
  /\ ~answer.asked
  /\ wire' = [stage |-> "echo", msg |-> "none", input |-> Written(frames),
              flags |-> 0, result |-> "none", written |-> frames, read |-> <<>>]
  /\ UNCHANGED <<storeVars, cqlVars, parsing, http, sse, s3>>

\* read_frame is called on what is left of those bytes; a frame it returns
\* is kept, after an error no further frame is read.
ReadNext ==
  /\ wire.stage = "echo"
  /\ LET frame == read_frame(wire.input)
     IN wire' = [wire EXCEPT
                   !.stage = IF frame.ok THEN @ ELSE "ended",
                   !.result = frame,
                   !.input = IF frame.ok THEN frame.at ELSE @,
                   !.read = IF frame.ok THEN Append(@, Unwrap(frame.value)) ELSE @]
  /\ UNCHANGED <<storeVars, cqlVars, parsing, http, sse, s3>>

\* ------------------------------------------------------------------- HTTP
\* StoreError::Corrupt. The message of an error of the HTTP handler is the
\* sequence of its words.
Corrupt(w) == [kind |-> "Corrupt", why |-> w, turn_id |-> 0, depth |-> 0, hash |-> <<>>]

\* str::contains, on sequences of words.
Contains(msg, needle) ==
  \E i \in 1..(Len(msg) - Len(needle) + 1) :
    SubSeq(msg, i, i + Len(needle) - 1) = needle

\* map_error with 404 for every NotFound.
map_error_plain(err) ==
  CASE err.kind = "NotFound" -> <<404, err.why>>
    [] err.kind = "InvalidInput" -> <<422, err.why>>
    [] err.kind = "Corrupt" -> <<500, err.why>>
    [] err.kind = "Io" -> <<500, err.why>>

\* map_error: the status and the message of the response to an error.
map_error(err) ==
  CASE err.kind = "NotFound" ->
         IF Contains(err.why, <<"type", "descriptor">>) THEN <<424, err.why>>
         ELSE <<404, err.why>>
    [] err.kind = "InvalidInput" -> <<422, err.why>>
    [] err.kind = "Corrupt" -> <<500, err.why>>
    [] err.kind = "Io" -> <<500, err.why>>

\* Ok((status, response)) as the closure of handle_request returns it.
HttpResponse(status, body) == Good([status |-> status, body |-> body], 0)

\* The arms of the match of handle_request, each as the steps of its path
\* through the closure: the mutex a step locks first (the guard lives until
\* the closure returns) and the ways the closure can return at that step,
\* by `?`, by `return` or with its final value. The errors of the calls into
\* the store, the registry and the projection are any StoreError.
Routes(route) ==
  LET Step(lock, exits) == [lock |-> lock, exits |-> exits]
      Callee == {Bad(NotFound(<<"context">>)), Bad(InvalidInput(<<"bad", "request">>)),
                 Bad(Corrupt(<<"crc", "mismatch">>)), Bad(Io(<<"read", "failed">>))}
      Encode == {Bad(InvalidInput(<<"json", "encode", "error">>))}
      Ok200 == {HttpResponse(200, "json")}
  IN CASE route = "bad_url" ->
            <<Step("none", {Bad(InvalidInput(<<"invalid", "url">>))})>>
       [] route = "healthz" -> <<Step("none", {HttpResponse(200, "ok")})>>
       [] route = "put_bundle" ->
            <<Step("none", {Bad(Io(<<"read", "body">>)),
                            Bad(InvalidInput(<<"invalid", "json">>))}),
              Step("registry", Callee \cup Encode
                               \cup {HttpResponse(204, "empty"), HttpResponse(201, "json")})>>
       [] route = "get_bundle" ->
            <<Step("registry", {Bad(NotFound(<<"bundle">>)), HttpResponse(304, "empty"),
                                HttpResponse(200, "json")})>>
       [] route = "get_type_version" ->
            <<Step("none", {Bad(InvalidInput(<<"invalid", "version">>))}),
              Step("registry", {Bad(NotFound(<<"type", "version">>))} \cup Encode \cup Ok200)>>
       [] route = "renderers" -> <<Step("registry", Encode \cup Ok200)>>
       [] route = "contexts" -> <<Step("store", Encode \cup Ok200)>>
       [] route = "search" ->
            <<Step("none", {HttpResponse(400, "missing q")}),
              Step("store", Encode \cup Ok200 \cup {HttpResponse(400, "cql error")})>>
       [] route = "provenance" ->
            <<Step("none", {Bad(InvalidInput(<<"invalid", "context_id">>))}),
              Step("store", Encode \cup Ok200)>>
       [] route = "turns" ->
            <<Step("none", {Bad(InvalidInput(<<"invalid", "context_id">>))}),
              Step("store", Callee),
              Step("registry",
                   {Bad(InvalidInput(<<"as_type_id", "required">>)),
                    Bad(InvalidInput(<<"as_type_version", "required">>)),
                    Bad(NotFound(<<"type", "descriptor">>)),
                    Bad(InvalidInput(<<"payload", "not", "loaded">>))}
                   \cup Callee \cup Encode \cup Ok200)>>
       [] route = "metrics" ->
            <<Step("store", {}), Step("registry", Encode \cup Ok200)>>
       [] route = "fs_list" ->
            <<Step("none", {Bad(InvalidInput(<<"invalid", "turn_id">>))}),
              Step("store", {Bad(NotFound(<<"no", "fs", "snapshot", "for", "turn">>))}
                            \cup Callee \cup Encode \cup Ok200)>>
       [] route = "fs_file" ->
            <<Step("none", {Bad(InvalidInput(<<"invalid", "turn_id">>)),
                            Bad(InvalidInput(<<"empty", "file", "path">>))}),
              Step("store", {Bad(NotFound(<<"no", "fs", "snapshot", "for", "turn">>)),
                             HttpResponse(200, "file")}
                            \cup Callee \cup Encode \cup Ok200)>>
       [] route = "other" -> <<Step("none", {Bad(NotFound(<<"route">>))})>>

RouteNames ==
  {"bad_url", "healthz", "put_bundle", "get_bundle", "get_type_version", "renderers",
   "contexts", "search", "provenance", "turns", "metrics", "fs_list", "fs_file", "other"}

\* No request is being handled.
NoHttp ==
  [pc |-> "idle", route |-> "none", step |-> 0, held |-> {}, result |-> "none",
   status |-> 0, message |-> <<>>]

\* handle_request is called with a request that is not GET /v1/events.
HttpRequest(route) ==
  /\ http.pc \in {"idle", "responded"}
  /\ ~parsing.done
  /\ ~answer.asked
  /\ wire.stage = "idle"
  /\ http' = [NoHttp EXCEPT !.pc = "closure", !.route = route]
  /\ UNCHANGED <<storeVars, cqlVars, parsing, wire, sse, s3>>

\* The closure goes on to its next step, locking the mutex of that step.
HttpStep ==
  /\ http.pc = "closure"
  /\ http.step < Len(Routes(http.route))
  /\ LET lock == Routes(http.route)[http.step + 1].lock
     IN http' = [http EXCEPT !.step = @ + 1,
                             !.held = IF lock = "none" THEN @ ELSE @ \cup {lock}]
  /\ UNCHANGED <<storeVars, cqlVars, parsing, wire, sse, s3>>

\* A closure return that leaves the guards alive.
HttpReturnHolding(exit) ==
  /\ http.pc = "closure"
  /\ http.step >= 1
  /\ exit \in Routes(http.route)[http.step].exits
  /\ http' = [http EXCEPT !.pc = "returned", !.result = exit]
  /\ UNCHANGED <<storeVars, cqlVars, parsing, wire, sse, s3>>

\* The closure returns at its current step: its guards are dropped.
HttpReturn(exit) ==
  /\ http.pc = "closure"
  /\ http.step >= 1
  /\ exit \in Routes(http.route)[http.step].exits
  /\ http' = [http EXCEPT !.pc = "returned", !.result = exit, !.held = {}]
  /\ UNCHANGED <<storeVars, cqlVars, parsing, wire, sse, s3>>

\* match result: the response of an Ok as it is, the response built from
\* map_error for an Err; request.respond writes it to the socket.
HttpRespond ==
  /\ http.pc = "returned"
  /\ http' = [http EXCEPT
                !.pc = "responded",
                !.status = IF http.result.ok THEN Unwrap(http.result.value).status
                           ELSE map_error(Unwrap(http.result.error))[1],
                !.message = IF http.result.ok THEN <<>>
                            ELSE map_error(Unwrap(http.result.error))[2]]
  /\ UNCHANGED <<storeVars, cqlVars, parsing, wire, sse, s3>>

\* handle_sse_stream for GET /v1/events: the headers are written, the event
\* bus is subscribed to and the streaming thread is spawned; no response goes
\* through request.respond.
SseOpen ==
  /\ http.pc \in {"idle", "responded"}
  /\ Len(sse) < MaxStreams
  /\ sse' = Append(sse, "spawned")
  /\ UNCHANGED <<storeVars, cqlVars, parsing, wire, http, s3>>

\* A streaming thread writes to its socket: the connected event first, then
\* an event of the bus or a heartbeat.
SseWrite(i, kind) ==
  /\ i \in 1..Len(sse)
  /\ (kind = "connected") <=> (sse[i] = "spawned")
  /\ sse' = [sse EXCEPT ![i] = kind]
  /\ UNCHANGED <<storeVars, cqlVars, parsing, wire, http, s3>>

\* A write of a streaming thread fails: the thread ends.
SseClose(i) ==
  /\ i \in 1..Len(sse)
  /\ sse' = [j \in 1..(Len(sse) - 1) |-> IF j < i THEN sse[j] ELSE sse[j + 1]]
  /\ UNCHANGED <<storeVars, cqlVars, parsing, wire, http, s3>>

\* ---------------------------------------------------------------- S3 sync
\* Files to sync (relative to data_dir).
SYNC_FILES ==
  <<"blobs/blobs.pack", "blobs/blobs.idx", "turns/turns.log", "turns/turns.idx",
    "turns/turns.meta", "turns/heads.tbl">>

\* A file, or an object of the bucket, is None or Some(its bytes). A
\* HashMap<String, u64> of sizes is a function on the paths in which 0 stands
\* for no entry: get(..).unwrap_or(0) reads 0 for a missing entry and no size
\* of 0 is ever inserted.
NoFiles == [path \in {SYNC_FILES[i] : i \in 1..Len(SYNC_FILES)} |-> None]

\* SyncState::default(), which SyncState::load returns for a missing file.
NoSizes == [path \in {SYNC_FILES[i] : i \in 1..Len(SYNC_FILES)} |-> 0]

\* A comparison that sees every change of size.
size_changed(current_size, last_size) == current_size # last_size

\* if current_size > last_size
size_grew(current_size, last_size) == current_size > last_size

\* The loop of do_sync over the tracked files, in their order: a file that
\* does not exist is passed over, one that grew is uploaded, and the size
\* of one whose upload succeeded is inserted into the state. `failed` holds
\* the files whose upload_file returns an error.
RECURSIVE SyncFiles(_, _, _, _)
SyncFiles(files, local, failed, acc) ==
  IF files = <<>> THEN acc
  ELSE LET relative_path == Head(files)
           current_size == Len(Unwrap(local[relative_path]))
           last_size == acc.file_sizes[relative_path]
           Visit(after) == SyncFiles(Tail(files), local, failed, after)
       IN Visit(IF local[relative_path] = None THEN acc
                ELSE IF ~size_grew(current_size, last_size) THEN acc
                ELSE IF relative_path \in failed
                THEN [acc EXCEPT !.attempted = @ \cup {relative_path}]
                ELSE [acc EXCEPT !.attempted = @ \cup {relative_path},
                                 !.remote[relative_path] = local[relative_path],
                                 !.file_sizes[relative_path] = current_size,
                                 !.files_synced = @ + 1])

\* The record of the latest call: its kind, the local files and the sizes
\* of sync_state.json it found, the files it tried to upload or download,
\* the ones it did, how the manifest fetch ended, and what it returned.
Pass(kind, local, loaded, attempted, done, fetch, result) ==
  [kind |-> kind, local |-> local, loaded |-> loaded, attempted |-> attempted,
   done |-> done, fetch |-> fetch, result |-> result]

\* do_sync: load the state, sync the tracked files, sync the registry
\* (registry_synced bundles, or an error), and when anything was synced
\* upload the manifest and save the state. `outcome` names the step that
\* fails, if one does.
do_sync(s, failed, registry_synced, outcome) ==
  LET Finish(after) ==
        LET Record(result) ==
              Pass("sync", s.local, s.state, after.attempted,
                   after.attempted \ failed, "none", result)
        IN IF outcome = "registry failed"
           THEN [s EXCEPT !.remote = after.remote, !.last = Record("Err")]
           ELSE IF after.files_synced > 0 \/ registry_synced > 0
           THEN IF outcome = "manifest failed"
                THEN [s EXCEPT !.remote = after.remote, !.last = Record("Err")]
                ELSE IF outcome = "save failed"
                THEN [s EXCEPT !.remote = after.remote,
                               !.manifest = Some(after.file_sizes),
                               !.last = Record("Err")]
                ELSE [s EXCEPT !.remote = after.remote,
                               !.manifest = Some(after.file_sizes),
                               !.state = after.file_sizes,
                               !.last = Record("Ok")]
           ELSE [s EXCEPT !.remote = after.remote, !.last = Record("Ok")]
  IN Finish(SyncFiles(SYNC_FILES, s.local, failed,
                      [file_sizes |-> s.state, remote |-> s.remote,
                       attempted |-> {}, files_synced |-> 0]))

\* A check that finds local data only when every tracked file exists.
has_all_local_data(local) ==
  \A i \in 1..Len(SYNC_FILES) : local[SYNC_FILES[i]] # None

\* SYNC_FILES.iter().any(|f| self.data_dir.join(f).exists())
has_local_data(local) ==
  \E i \in 1..Len(SYNC_FILES) : local[SYNC_FILES[i]] # None

\* maybe_restore: nothing when local data exists or no manifest is fetched
\* ("none": no such key, "error": any other failure); otherwise each file
\* of the manifest is downloaded, `restored` being the files whose download
\* succeeds, and the registry is restored. dir_failed: create_dir_all
\* returns an error after those files.
maybe_restore(s, fetch, restored, dir_failed) ==
  IF has_local_data(s.local)
  THEN [s EXCEPT !.last = Pass("restore", s.local, s.state, {}, {}, "skipped", "Ok(false)")]
  ELSE IF fetch # "found"
  THEN [s EXCEPT !.last = Pass("restore", s.local, s.state, {}, {}, fetch, "Ok(false)")]
  ELSE LET files == {path \in DOMAIN Unwrap(s.manifest) : Unwrap(s.manifest)[path] > 0}
           done == {path \in restored \cap files : s.remote[path] # None}
       IN [s EXCEPT
             !.local = [path \in DOMAIN s.local |->
                          IF path \in done THEN s.remote[path] ELSE s.local[path]],
             !.last = Pass("restore", s.local, s.state, files, done, fetch,
                           IF dir_failed THEN "Err" ELSE "Ok(true)")]

\* The mirror before anything ran: no local file, an empty bucket, no
\* sync_state.json, the sync task not started, shutdown not called.
NoS3 ==
  [local |-> NoFiles, remote |-> NoFiles, manifest |-> None, state |-> NoSizes,
   loop |-> "not started", stop |-> "no", finals |-> 0, writes |-> 0,
   last |-> Pass("none", NoFiles, NoSizes, {}, {}, "none", "none")]

\* The bucket holds the backup of an earlier run: a pack and a head table
\* of one byte each, and a manifest that also names a log whose object is
\* missing.
EarlierBackup ==
  /\ s3.loop = "not started"
  /\ s3.manifest = None
  /\ s3.last.kind = "none"
  /\ s3' = [s3 EXCEPT
              !.remote = [NoFiles EXCEPT !["blobs/blobs.pack"] = Some(<<0>>),
                                         !["turns/heads.tbl"] = Some(<<1>>)],
              !.manifest = Some([NoSizes EXCEPT !["blobs/blobs.pack"] = 1,
                                                !["turns/heads.tbl"] = 1,
                                                !["turns/turns.log"] = 1])]
  /\ UNCHANGED <<storeVars, cqlVars, parsing, wire, http, sse>>

\* The store writes one of its files: it creates it or appends a byte to
\* it, rewrites its last byte in place, or (recovery) truncates it by one.
LocalWrite(path, kind) ==
  /\ s3.writes < MaxWrites
  /\ LET file == s3.local[path]
         bytes == Unwrap(file)
     IN \E new \in
          (IF kind = "append"
           THEN {IF file = None THEN <<0>> ELSE Append(bytes, 0)}
           ELSE IF file = None \/ file = Some(<<>>) THEN {}
           ELSE IF kind = "rewrite"
           THEN {[bytes EXCEPT ![Len(bytes)] = 1 - @]}
           ELSE {SubSeq(bytes, 1, Len(bytes) - 1)}) :
          s3' = [s3 EXCEPT !.local[path] = Some(new), !.writes = @ + 1,
                           !.last = Pass("write", NoFiles, NoSizes, {}, {}, "none", "none")]
  /\ UNCHANGED <<storeVars, cqlVars, parsing, wire, http, sse>>

\* maybe_restore is called at startup, before the sync task exists.
Restore(fetch, restored, dir_failed) ==
  /\ s3.loop = "not started"
  /\ (fetch = "found") => s3.manifest # None
  /\ (fetch = "none") => s3.manifest = None
  /\ \E next \in {maybe_restore(s3, fetch, restored, dir_failed)} : s3' = next
  /\ UNCHANGED <<storeVars, cqlVars, parsing, wire, http, sse>>

\* start_background_sync spawns sync_loop, which builds its ticker first:
\* tokio's interval panics when the period is zero, and the task ends.
StartBackgroundSync(sync_interval_secs) ==
  /\ s3.loop = "not started"
  /\ s3' = [s3 EXCEPT !.loop = IF sync_interval_secs = 0 THEN "panicked" ELSE "select"]
  /\ UNCHANGED <<storeVars, cqlVars, parsing, wire, http, sse>>

\* select!: the ticker fires, do_sync runs, an error is logged.
Tick(failed, registry_synced, outcome) ==
  /\ s3.loop = "select"
  /\ \E next \in {do_sync(s3, failed, registry_synced, outcome)} : s3' = next
  /\ UNCHANGED <<storeVars, cqlVars, parsing, wire, http, sse>>

\* S3SyncHandle::shutdown sends true on the watch channel and awaits the
\* task.
Shutdown ==
  /\ s3.loop # "not started"
  /\ s3.stop = "no"
  /\ s3' = [s3 EXCEPT !.stop = "sent"]
  /\ UNCHANGED <<storeVars, cqlVars, parsing, wire, http, sse>>

\* select!: the watch channel changed and holds true: break.
Break ==
  /\ s3.loop = "select"
  /\ s3.stop = "sent"
  /\ s3' = [s3 EXCEPT !.loop = "final"]
  /\ UNCHANGED <<storeVars, cqlVars, parsing, wire, http, sse>>

\* The final do_sync after the loop; an error is logged; the task ends.
FinalSync(failed, registry_synced, outcome) ==
  /\ s3.loop = "final"
  /\ \E next \in {do_sync(s3, failed, registry_synced, outcome)} :
       s3' = [next EXCEPT !.loop = "done", !.finals = @ + 1]
  /\ UNCHANGED <<storeVars, cqlVars, parsing, wire, http, sse>>

\* handle.await returns: the task has ended.
ShutdownReturns ==
  /\ s3.stop = "sent"
  /\ s3.loop \in {"done", "panicked"}
  /\ s3' = [s3 EXCEPT !.stop = "returned"]
  /\ UNCHANGED <<storeVars, cqlVars, parsing, wire, http, sse>>

\* No query text has been given to parse.
NoParse == [done |-> FALSE, input |-> <<>>, result |-> "none"]

\* The pieces query texts are made of: three comparisons, the last on a name
\* that is no field, the keywords and the parentheses.
Words ==
  <<
     <<116, 97, 103, 32, 61, 32, 49>>,  \* tag = 1
     <<105, 100, 32, 61, 32, 50>>,  \* id = 2
     <<102, 111, 111, 32, 61, 32, 49>>,  \* foo = 1
     <<65, 78, 68>>,  \* AND
     <<79, 82>>,  \* OR
     <<78, 79, 84>>,  \* NOT
     <<40>>,  \* (
     <<41>> >>  \* )

\* The words with the given indices, separated by single spaces.
RECURSIVE Join(_)
Join(ws) ==
  IF ws = <<>> THEN <<>>
  ELSE IF Len(ws) = 1 THEN Words[ws[1]]
  ELSE Join(SubSeq(ws, 1, Len(ws) - 1)) \o <<32>> \o Words[ws[Len(ws)]]

\* Query texts with other lexemes: lists, strings, dates, keywords in lower
\* case, a line break, characters no token starts with.
OtherQueries ==
  {
    <<116, 97, 103, 32, 61, 32, 49, 32, 79, 82, 32, 105, 100, 32, 61, 32, 50, 32, 65, 78, 68, 32, 116, 97, 103, 32, 61, 32, 49>>,
      \* tag = 1 OR id = 2 AND tag = 1
    <<116, 97, 103, 32, 61, 32, 49, 32, 79, 82, 32, 105, 100, 32, 61, 32, 50, 32, 79, 82, 32, 116, 97, 103, 32, 61, 32, 49>>,
      \* tag = 1 OR id = 2 OR tag = 1
    <<116, 97, 103, 32, 61, 32, 49, 32, 65, 78, 68, 32, 105, 100, 32, 61, 32, 50, 32, 65, 78, 68, 32, 116, 97, 103, 32, 61, 32, 49>>,
      \* tag = 1 AND id = 2 AND tag = 1
    <<78, 79, 84, 32, 116, 97, 103, 32, 61, 32, 49, 32, 79, 82, 32, 105, 100, 32, 61, 32, 50, 32, 65, 78, 68, 32, 116, 97, 103, 32, 61, 32, 49>>,
      \* NOT tag = 1 OR id = 2 AND tag = 1
    <<116, 97, 103, 32, 61, 32, 49, 32, 65, 78, 68, 32, 78, 79, 84, 32, 40, 102, 111, 111, 32, 61, 32, 49, 32, 79, 82, 32, 105, 100, 32, 61, 32, 50, 41>>,
      \* tag = 1 AND NOT (foo = 1 OR id = 2)
    <<40, 116, 97, 103, 32, 61, 32, 49, 32, 79, 82, 32, 105, 100, 32, 61, 32, 50, 41, 32, 65, 78, 68, 32, 116, 97, 103, 32, 61, 32, 49>>,
      \* (tag = 1 OR id = 2) AND tag = 1
    <<102, 111, 111, 32, 61, 32, 49, 32, 33>>,
      \* foo = 1 !
    <<84, 97, 103, 32, 61, 32, 49>>,
      \* Tag = 1
    <<116, 114, 117, 101, 32, 61, 32, 49>>,
      \* true = 1
    <<116, 97, 103, 32, 73, 78, 32, 40, 102, 111, 111, 41>>,
      \* tag IN (foo)
    <<116, 97, 103, 32, 73, 78, 32, 40, 116, 114, 117, 101, 44, 32, 34, 97, 34, 44, 32, 49, 41>>,
      \* tag IN (true, "a", 1)
    <<110, 111, 116, 32, 110, 111, 116, 32, 116, 97, 103, 32, 61, 32, 49>>,
      \* not not tag = 1
    <<116, 97, 103, 32, 61, 32, 49, 32, 97, 110, 100, 10, 98, 97, 114, 32, 33, 61, 32, 34, 120, 34>>,
      \* tag = 1 and\nbar != "x"
    <<116, 97, 103, 32, 61, 32, 34, 45, 55, 100, 34, 32, 111, 114, 32, 99, 114, 101, 97, 116, 101, 100, 32, 62, 61, 32, 45, 53>>,
      \* tag = "-7d" or created >= -5
    <<97, 110, 100, 32, 61, 32, 49>>,
      \* and = 1
    <<116, 97, 103, 32, 94, 126, 61, 32, 39, 97, 92, 39, 98, 39>>,
      \* tag ^~= 'a\'b'
    <<116, 97, 103, 32, 94, 32, 49>>,
      \* tag ^ 1
    <<116, 97, 103, 32, 61, 32, 34, 97>>,
      \* tag = "a
    <<105, 100, 32, 60, 61, 32, 49, 46, 53, 32, 65, 78, 68, 32, 78, 79, 84, 32, 40, 100, 101, 112, 116, 104, 32, 62, 32, 50, 32, 79, 82, 32, 100, 101, 112, 116, 104, 32, 60, 32, 49, 41>> }
      \* id <= 1.5 AND NOT (depth > 2 OR depth < 1)

\* The q parameter of a search request is parsed.
Parse(input) ==
  /\ ~parsing.done
  /\ ~answer.asked
  /\ parsing' = [done |-> TRUE, input |-> input, result |-> parse(input)]
  /\ UNCHANGED <<storeVars, cqlVars, wire, http, sse, s3>>

\* A query that parsed is executed.
SearchParsed(live_contexts, now) ==
  /\ parsing.done
  /\ parsing.result.ok
  /\ Search(Named(Unwrap(parsing.result.value).ast), live_contexts, now)

\* The response to the search request is written.
RespondParsed ==
  /\ parsing.done
  /\ parsing' = NoParse
  /\ answer' = NoAnswer
  /\ UNCHANGED <<storeVars, indexes, latest, supplied, calls, wire, http, sse, s3>>

\* ------------------------------------------------------------------- Init
Init ==
  /\ open = TRUE
  /\ pc = "idle"
  /\ op = NoOp
  /\ pack = <<>>
  /\ packSynced = 0
  /\ bidx = <<>>
  /\ log = <<>>
  /\ tidx = <<>>
  /\ heads = <<>>
  /\ hdrTurn = 1
  /\ nextTurn = 1
  /\ res = NoRes
  /\ closeView = NoView
  /\ crash = NoCrash
  /\ indexes = NewIndexes
  /\ latest = [c \in ContextIds |-> NoContext]
  /\ supplied = {}
  /\ calls = 0
  /\ answer = NoAnswer
  /\ parsing = NoParse
  /\ wire = NoWire
  /\ http = NoHttp
  /\ sse = <<>>
  /\ s3 = NoS3

\* The store mutex is free and the latest response has been written.
Idle == open /\ pc = "idle" /\ res = NoRes

HasRoom == Len(log) < MaxChain /\ nextTurn <= MaxChain

\* ---------------------------------------------------------------- context
\* Create: allocate the context_id, write the synthetic root turn (depth 0,
\* empty payload, null parent), return the head.
Create ==
  /\ Idle
  /\ Len(heads) < MaxContexts
  /\ HasRoom
  /\ LET c == Len(heads) + 1
         r == TurnRecord(nextTurn, c, 0, 0, Blake3(EmptyPayload), NoKey)
     IN /\ log' = Append(log, r)
        /\ tidx' = Append(tidx, IdxEntry(r, Len(log) + 1))
        /\ heads' = Append(heads, [head_turn_id |-> nextTurn, head_depth |-> 0])
        /\ res' = Ok(nextTurn, 0, r.payload_hash)
  /\ nextTurn' = nextTurn + 1
  /\ closeView' = NoView
  /\ crash' = NoCrash
  /\ UNCHANGED <<open, pc, op, pack, packSynced, bidx, hdrTurn>>
  /\ UNCHANGED <<cqlVars, wireVars>>

\* A fork whose head starts at depth 0, like a created context.
ForkHeadFresh(src) == [head_turn_id |-> heads[src].head_turn_id, head_depth |-> 0]

\* The head of a fork: the source context's head.
ForkHead(src) == heads[src]

\* Fork(src): read src's head, allocate the context_id; the new context
\* inherits the source's head as its root.
Fork(src) ==
  /\ Idle
  /\ Len(heads) < MaxContexts
  /\ IF src \in Contexts
     THEN /\ heads' = Append(heads, ForkHead(src))
          /\ res' = Ok(ForkHead(src).head_turn_id, ForkHead(src).head_depth, <<>>)
          /\ closeView' = NoView
          /\ crash' = NoCrash
     ELSE /\ res' = NotFound("context")
          /\ closeView' = NoView
          /\ crash' = NoCrash
          /\ UNCHANGED heads
  /\ UNCHANGED <<open, pc, op, pack, packSynced, bidx, log, tidx, hdrTurn,
                 nextTurn>>
  /\ UNCHANGED <<cqlVars, wireVars>>

\* ----------------------------------------------------------------- append
\* A rejected request that has already taken its turn_id.
RejectAfterAlloc(r) ==
  /\ res' = r
  /\ nextTurn' = nextTurn + 1
  /\ closeView' = NoView
  /\ crash' = NoCrash
  /\ UNCHANGED <<pc, op, pack, bidx, log, tidx>>

\* A request answered before step 3: nothing is written, nothing allocated.
Reject(r) ==
  /\ res' = r
  /\ closeView' = NoView
  /\ crash' = NoCrash
  /\ UNCHANGED <<pc, op, nextTurn, pack, bidx, log, tidx>>

\* A replay answered with the recorded result whatever the payload.
ReplayResultAnyPayload(c, b, k) ==
  LET r == Recent(c, k)[Len(Recent(c, k))]
  IN Ok(r.turn_id, r.depth, r.payload_hash)

\* The answer to a replayed key: the recorded result if the payload hashes
\* to the recorded digest.
ReplayResult(c, b, k) ==
  LET r == Recent(c, k)[Len(Recent(c, k))]
  IN IF Blake3(b) = r.payload_hash
     THEN Ok(r.turn_id, r.depth, r.payload_hash)
     ELSE InvalidInput("idempotency")

\* Steps 1 to 5 of append up to the writes, under the store mutex: resolve
\* the head, check the parent or the idempotency key, put the payload,
\* allocate the turn_id, write the record to the log and its entry to the
\* index (not yet fsynced).
AppendBegin(c, p, b, k) ==
  /\ Idle
  /\ IF c \notin Contexts THEN Reject(NotFound("context"))
     ELSE IF IsReplay(c, k) THEN Reject(ReplayResult(c, b, k))
     ELSE IF ~ParentOk(c, p) THEN Reject(InvalidInput("parent"))
     ELSE LET r == TurnRecord(nextTurn, c, p, NewDepth(c), Blake3(b), k)
          IN /\ HasRoom
             /\ pack' = PutPack(b)
             /\ bidx' = PutIdx(b)
             /\ nextTurn' = nextTurn + 1
             /\ log' = Append(log, r)
             /\ tidx' = Append(tidx, IdxEntry(r, Len(log) + 1))
             /\ op' = [context_id |-> c, parent_turn_id |-> p, payload |-> b,
                       key |-> k, turn_id |-> r.turn_id, depth |-> r.depth]
             /\ pc' = "sync"
             /\ res' = NoRes
             /\ closeView' = NoView
             /\ crash' = NoCrash
  /\ UNCHANGED <<open, packSynced, heads, hdrTurn>>
  /\ UNCHANGED <<cqlVars, wireVars>>

\* Step 5, the fsyncs: the log, then the index.
AppendSync ==
  /\ open /\ pc = "sync"
  /\ pc' = "head"
  /\ UNCHANGED <<open, op, pack, packSynced, bidx, log, tidx, heads, hdrTurn,
                 nextTurn, res, closeView, crash>>
  /\ UNCHANGED <<cqlVars, wireVars>>

\* Step 6: update the head table entry in place and fsync; release the mutex.
AppendHead ==
  /\ open /\ pc = "head"
  /\ heads' = [heads EXCEPT ![op.context_id] =
                 [head_turn_id |-> op.turn_id, head_depth |-> op.depth]]
  /\ res' = Ok(op.turn_id, op.depth, Blake3(op.payload))
  /\ pc' = "idle"
  /\ op' = NoOp
  /\ UNCHANGED <<open, pack, packSynced, bidx, log, tidx, hdrTurn, nextTurn,
                 closeView, crash>>
  /\ UNCHANGED <<cqlVars, wireVars>>

\* ------------------------------------------------------------ other calls
\* PutBlob: a put of its own.
BlobPut(b) ==
  /\ Idle
  /\ pack' = PutPack(b)
  /\ bidx' = PutIdx(b)
  /\ res' = Ok(0, 0, Blake3(b))
  /\ closeView' = NoView
  /\ crash' = NoCrash
  /\ UNCHANGED <<open, pc, op, packSynced, log, tidx, heads, hdrTurn, nextTurn>>
  /\ UNCHANGED <<cqlVars, wireVars>>

\* GetHead: a reader takes the mutex and reads the head of context c.
Read(c) ==
  /\ Idle
  /\ c \in Contexts
  /\ res' = Ok(heads[c].head_turn_id, heads[c].head_depth, <<>>)
  /\ closeView' = NoView
  /\ crash' = NoCrash
  /\ UNCHANGED <<open, pc, op, pack, packSynced, bidx, log, tidx, heads, hdrTurn,
                 nextTurn>>
  /\ UNCHANGED <<cqlVars, wireVars>>

\* The limits a reader passes to get_last.
Limits == 0..Unbounded

\* GetLast: a reader takes the mutex and reads the last `limit` turns of c.
ReadLast(c, limit) ==
  /\ Idle
  /\ c \in Contexts
  /\ res' = [kind |-> "Turns", context_id |-> c, limit |-> limit,
             turns |-> GetLast(c, limit)]
  /\ closeView' = NoView
  /\ crash' = NoCrash
  /\ UNCHANGED <<open, pc, op, pack, packSynced, bidx, log, tidx, heads, hdrTurn,
                 nextTurn>>
  /\ UNCHANGED <<cqlVars, wireVars>>

\* The dispatcher writes the response frame.
Reply ==
  /\ res # NoRes
  /\ res' = NoRes
  /\ UNCHANGED <<open, pc, op, pack, packSynced, bidx, log, tidx, heads, hdrTurn,
                 nextTurn, closeView, crash>>
  /\ UNCHANGED <<cqlVars, wireVars>>

\* The periodic flush: fsync of the pack, the counter into the log header.
Flush ==
  /\ Idle
  /\ packSynced' = Len(pack)
  /\ hdrTurn' = nextTurn
  /\ res' = NoRes
  /\ closeView' = NoView
  /\ crash' = NoCrash
  /\ UNCHANGED <<open, pc, op, pack, bidx, log, tidx, heads, nextTurn>>
  /\ UNCHANGED <<cqlVars, wireVars>>

\* Close: flush, then stop.
Close ==
  /\ Idle
  /\ packSynced' = Len(pack)
  /\ hdrTurn' = nextTurn
  /\ open' = FALSE
  /\ closeView' = [taken |-> TRUE, view |-> View]
  /\ res' = NoRes
  /\ crash' = NoCrash
  /\ UNCHANGED <<pc, op, pack, bidx, log, tidx, heads, nextTurn>>
  /\ UNCHANGED <<cqlVars, wireVars>>

\* Open: load the files and run recovery.
Open ==
  /\ ~open
  /\ open' = TRUE
  /\ bidx' = RecoverBidx(bidx, pack)
  /\ packSynced' = Len(pack)
  /\ log' = RecoverLog(log)
  /\ tidx' = RebuildIdx(RecoverLog(log))
  /\ heads' = RecoverHeads(heads, RecoverLog(log))
  /\ nextTurn' = hdrTurn
  /\ res' = NoRes
  /\ UNCHANGED <<pc, op, pack, hdrTurn, closeView, crash>>
  /\ UNCHANGED <<cqlVars, wireVars>>

\* The log a crash may leave when the last record was written, not fsynced:
\* the record lost, torn, or whole.
CrashLogs ==
  IF pc = "sync"
  THEN {SubSeq(log, 1, Len(log) - 1),
        [log EXCEPT ![Len(log)].whole = FALSE],
        log}
  ELSE {log}

\* The index a crash may leave: the unsynced last entry lost or kept.
CrashIdxs ==
  IF pc = "sync" THEN {SubSeq(tidx, 1, Len(tidx) - 1), tidx} ELSE {tidx}

\* The process dies: memory is lost, unsynced file tails may be lost.
Crash ==
  /\ open
  /\ res = NoRes
  /\ open' = FALSE
  /\ \E n \in packSynced..Len(pack) : pack' = SubSeq(pack, 1, n)
  /\ \E lg \in CrashLogs :
       /\ log' = lg
       /\ crash' = [at |-> pc, context_id |-> op.context_id, turn_id |-> op.turn_id,
                    depth |-> op.depth,
                    torn |-> (lg # <<>> /\ ~lg[Len(lg)].whole)]
  /\ \E ix \in CrashIdxs : tidx' = ix
  /\ pc' = "idle"
  /\ op' = NoOp
  /\ nextTurn' = 0
  /\ res' = NoRes
  /\ closeView' = NoView
  /\ UNCHANGED <<packSynced, bidx, heads, hdrTurn>>
  /\ UNCHANGED <<cqlVars, wireVars>>

\* ------------------------------------------------------------------- Next
Steps == AppendSync \/ AppendHead \/ Reply

\* The parents a client names for context c: none, the head, or the stale
\* head it read one append ago.
Parents(c) ==
  IF c \in Contexts
  THEN {0, heads[c].head_turn_id, GetTurn(heads[c].head_turn_id).parent_turn_id}
  ELSE {0}

\* Clients that send such a parent with any payload and key.
Appends ==
  \/ \E c \in 1..MaxContexts, b \in Payloads, k \in Keys \cup {NoKey} :
       \E p \in Parents(c) : Len(log) < MaxTurns /\ AppendBegin(c, p, b, k)
  \/ Steps

\* Clients that append to the head they have just read, without a key.
HeadAppends ==
  \/ \E c \in Contexts, b \in Payloads :
       Len(log) < MaxTurns /\ AppendBegin(c, heads[c].head_turn_id, b, NoKey)
  \/ Steps

\* The same clients, all sending one payload.
SamePayloadAppends ==
  \/ \E c \in Contexts :
       Len(log) < MaxCrashLog /\ AppendBegin(c, heads[c].head_turn_id, "a", NoKey)
  \/ Steps

\* The same clients, building chains of up to MaxChain turns.
LongAppends ==
  \/ \E c \in Contexts : AppendBegin(c, heads[c].head_turn_id, "a", NoKey)
  \/ Steps

Next ==
  \/ Len(log) < MaxTurns /\ Create
  \/ \E src \in 1..MaxContexts : Fork(src)
  \/ Appends
  \/ \E c \in 1..MaxContexts : Read(c)

NextBlob == (Len(log) < MaxTurns /\ Create) \/ HeadAppends \/ (\E b \in Payloads : BlobPut(b))

NextReopen ==
  (Len(log) < MaxTurns /\ Create) \/ (\E src \in Contexts : Fork(src)) \/ HeadAppends \/ Close \/ Open

NextCrash ==
  \/ Len(log) < MaxCrashLog /\ Create
  \/ \E src \in Contexts : Fork(src)
  \/ SamePayloadAppends
  \/ Flush
  \/ Crash
  \/ Open

NextFork ==
  \/ Create
  \/ \E src \in Contexts : Fork(src)
  \/ LongAppends
  \/ \E c \in Contexts, limit \in Limits : ReadLast(c, limit)

\* Normal operation of an open store: writers and readers.
Spec == Init /\ [][Next]_vars

\* Appends and puts on the blob store.
SpecBlob == Init /\ [][NextBlob]_vars

\* Operation with clean close and reopen.
SpecReopen == Init /\ [][NextReopen]_vars

\* Operation with the periodic flush and crashes at any point.
SpecCrash == Init /\ [][NextCrash]_vars

\* Contexts that grow long chains, fork, and are read with get_last.
SpecFork == Init /\ [][NextFork]_vars

\* ------------------------------------------------------ CQL engine: Next
\* AND, OR and NOT over comparisons on a string, an id, a range, the live
\* flag ("true", "false"), and one whose operator the field does not support.
BoolQueries ==
  LET atoms ==
        { Comparison("tag", "Eq", StringValue(<<97, 98>>)),
          Comparison("id", "Eq", NumberValue(1)),
          Comparison("depth", "Gte", NumberValue(1)),
          Comparison("is_live", "Eq", StringValue(<<116, 114, 117, 101>>)),
          Comparison("is_live", "Eq", StringValue(<<102, 97, 108, 115, 101>>)),
          Comparison("title", "Gt", StringValue(<<97>>)) }
  IN {And(a, b) : a, b \in atoms} \cup {Or(a, b) : a, b \in atoms}
     \cup {Not(a) : a \in atoms} \cup {Not(Not(a)) : a \in atoms}
     \cup {Not(Or(a, Not(a))) : a \in atoms}

NextCqlBool ==
  \/ IndexOps
  \/ \E q \in BoolQueries, live \in Lives, now \in Clock : Search(q, live, now)
  \/ Respond

\* Searches with AND, OR and NOT over indexes built by any calls.
SpecCqlBool == Init /\ [][NextCqlBool]_vars

\* Prefix and case-insensitive comparisons of every string field with the
\* strings "", "a", "A", "b", "B", "ab", "Ab", "aB", "AB", "abb".
StringQueries ==
  {Comparison(f, operator, StringValue(p)) :
     f \in {"tag", "title", "user", "service", "host"},
     operator \in {"Starts", "StartsCi", "EqCi"},
     p \in {<<>>, <<97>>, <<65>>, <<98>>, <<66>>, <<97, 98>>, <<65, 98>>,
            <<97, 66>>, <<65, 66>>, <<97, 98, 98>>}}

NextCqlString ==
  \/ IndexOps
  \/ \E q \in StringQueries, live \in {{}}, now \in Clock : Search(q, live, now)
  \/ Respond

\* Searches with ^=, ^~= and ~= over indexes built by any calls.
SpecCqlString == Init /\ [][NextCqlString]_vars

\* Exact comparisons: != on every field and IN on the fields that support
\* it, with values of the field's type and of the wrong type, and lists of
\* one and two elements.
ExactQueries ==
  LET strings == {StringValue(<<97>>), StringValue(<<97, 98>>),
                  StringValue(<<65, 98>>), StringValue(<<98>>), StringValue(<<66>>)}
      numbers == {NumberValue(0), NumberValue(1), NumberValue(2), NumberValue(3)}
      dates == {NumberValue(5), NumberValue(6), NumberValue(7),
                DateValue(<<45, 50, 104>>, TRUE),
                StringValue(<<49, 57, 55, 48, 45, 48, 49, 45, 48, 49>>)}
      values == strings \cup numbers \cup dates
      lists == {ListValue(<<StringValue(<<97>>)>>),
                ListValue(<<StringValue(<<97, 98>>), StringValue(<<98>>)>>),
                ListValue(<<StringValue(<<97>>), NumberValue(1)>>),
                ListValue(<<NumberValue(1)>>),
                ListValue(<<NumberValue(1), NumberValue(2)>>),
                ListValue(<<NumberValue(2), StringValue(<<98>>)>>)}
  IN {Comparison(f, "Neq", v) :
        f \in {"id", "tag", "title", "label", "user", "service", "host",
               "trace_id", "parent", "root", "created", "depth", "is_live"},
        v \in values}
     \cup
     {Comparison(f, "In", v) :
        f \in {"id", "tag", "title", "label", "user", "service", "host",
               "parent", "root"},
        v \in lists \cup {StringValue(<<97>>)}}

NextCqlExact ==
  \/ IndexOps
  \/ \E q \in ExactQueries, live \in {{1}}, now \in Clock : Search(q, live, now)
  \/ Respond

\* Searches with != and IN over indexes built by any calls.
SpecCqlExact == Init /\ [][NextCqlExact]_vars

\* Every operator on every field, with values of each type: strings "a",
\* "true" and "yes", the number 1, the date string "x", and lists of strings,
\* of numbers and of both.
ErrorQueries ==
  {Comparison(f, operator, v) :
     f \in {"id", "tag", "title", "label", "user", "service", "host",
            "trace_id", "parent", "root", "created", "depth", "is_live"},
     operator \in {"Eq", "Neq", "Starts", "EqCi", "StartsCi",
                   "Gt", "Gte", "Lt", "Lte", "In"},
     v \in {StringValue(<<97>>), StringValue(<<116, 114, 117, 101>>),
            StringValue(<<121, 101, 115>>), NumberValue(1),
            DateValue(<<120>>, FALSE),
            ListValue(<<StringValue(<<97>>)>>),
            ListValue(<<NumberValue(1)>>),
            ListValue(<<StringValue(<<97>>), NumberValue(1)>>)}}

NextCqlErrors ==
  \/ IndexOps
  \/ \E q \in ErrorQueries, live \in {{1}}, now \in Clock : Search(q, live, now)
  \/ Respond

\* Searches with every operator and value type on every field.
SpecCqlErrors == Init /\ [][NextCqlErrors]_vars

\* Range comparisons: every ordering operator on depth with integer
\* literals from -1 up, and on created with relative dates of one minute to
\* one day before a clock that reads two hours.
RangeQueries ==
  {Comparison("depth", operator, NumberValue(v)) :
     operator \in {"Eq", "Neq", "Gt", "Gte", "Lt", "Lte"}, v \in -1..3}
  \cup
  {Comparison("created", operator, DateValue(d, TRUE)) :
     operator \in {"Eq", "Neq", "Gt", "Gte", "Lt", "Lte"},
     d \in {<<45, 49, 109>>, <<45, 49, 104>>, <<45, 50, 104>>, <<45, 51, 104>>,
            <<45, 49, 100>>}}

NextCqlRange ==
  \/ IndexOps
  \/ \E q \in RangeQueries, live \in {{1}}, now \in Clock : Search(q, live, now)
  \/ Respond

\* Searches on depth and created over indexes built by any calls.
SpecCqlRange == Init /\ [][NextCqlRange]_vars

NextParse ==
  \/ \E n \in 0..MaxWords : \E ws \in [1..n -> 1..Len(Words)] : Parse(Join(ws))
  \/ \E input \in OtherQueries : Parse(input)
  \/ \E live \in Lives, now \in Clock : SearchParsed(live, now)
  \/ RespondParsed

\* Query texts are parsed and, when they parse, executed.
SpecParse == Init /\ [][NextParse]_vars

NextWire ==
  \/ \E stream \in Streams : ReadFrame(stream)
  \/ \E msg \in ParseFns : ParseRequest(msg)
  \/ NextFrame

\* Frames are read from a connection and their payloads parsed as requests.
SpecWire == Init /\ [][NextWire]_vars

NextFrames ==
  \/ /\ wire.stage = "idle"
     /\ \E n \in 1..MaxFrames : \E frames \in [1..n -> Frames] :
          /\ \A i \in 1..(n - 1) : frames[i].payload.zeros <= 32
          /\ WriteFrames(frames)
  \/ ReadNext
  \/ NextFrame

\* Frames are written back to back by one side and read by the other.
SpecFrames == Init /\ [][NextFrames]_vars

\* The files of the next pass that have grown: the uploads that can fail.
Grown ==
  {path \in DOMAIN s3.local :
     s3.local[path] # None /\ Len(Unwrap(s3.local[path])) > s3.state[path]}

NextS3 ==
  \/ EarlierBackup
  \/ \E path \in {"blobs/blobs.pack", "turns/heads.tbl"},
        kind \in {"append", "rewrite", "truncate"} : LocalWrite(path, kind)
  \/ \E fetch \in {"found", "none", "error"},
        restored \in SUBSET {"blobs/blobs.pack", "turns/heads.tbl"},
        dir_failed \in BOOLEAN : Restore(fetch, restored, dir_failed)
  \/ \E sync_interval_secs \in {0, 60} : StartBackgroundSync(sync_interval_secs)
  \/ \E failed \in SUBSET Grown, registry_synced \in {0, 1},
        outcome \in {"none", "registry failed", "manifest failed", "save failed"} :
       Tick(failed, registry_synced, outcome)
  \/ Shutdown
  \/ Break
  \/ \E failed \in SUBSET Grown, registry_synced \in {0, 1},
        outcome \in {"none", "registry failed", "manifest failed", "save failed"} :
       FinalSync(failed, registry_synced, outcome)
  \/ ShutdownReturns

\* The mirror at work: restore at startup, the store writing its files, the
\* sync task ticking, and shutdown.
SpecS3 == Init /\ [][NextS3]_vars

NextHttp ==
  \/ \E route \in RouteNames : HttpRequest(route)
  \/ HttpStep
  \/ \E route \in RouteNames, i \in 1..3 :
       \E exit \in Routes(route)[IF i <= Len(Routes(route)) THEN i ELSE 1].exits :
         HttpReturn(exit)
  \/ HttpRespond
  \/ SseOpen
  \/ \E i \in 1..MaxStreams, kind \in {"connected", "event", "heartbeat"} : SseWrite(i, kind)
  \/ \E i \in 1..MaxStreams : SseClose(i)

\* HTTP requests are handled one after the other while SSE threads stream.
SpecHttp == Init /\ [][NextHttp]_vars

\* ------------------------------------------------------------------ claims
\* The mutex is free: the states in which a read runs.
Readable == open /\ pc = "idle"

LogIds == {log[i].turn_id : i \in 1..Len(log)}

FreshFork(c) == c \in Contexts /\ CtxRecords(c) = <<>>

C2_ParentMismatchRejected ==
  [][\/ res'.kind = "InvalidInput" /\ UNCHANGED <<log, tidx, heads, nextTurn>>
     \/ ~Idle
     \/ \A c \in Contexts, k \in Keys \cup {NoKey} :
          \/ IsReplay(c, k)
          \/ \A p \in Parents(c) \ {heads[c].head_turn_id}, b \in Payloads :
               ~AppendBegin(c, p, b, k)]_vars

\* C2 witness: a context with an appended turn has rejected a parent mismatch.
C2_Witness ==
  /\ res.kind = "InvalidInput"
  /\ res.why = "parent"
  /\ \E c \in Contexts : heads[c].head_depth >= 1

KeyUniqueInWindow(c) ==
  LET rs == CtxRecords(c)
  IN \A j \in 2..Len(rs) :
       rs[j].idempotency_key # NoKey =>
         \A i \in 1..(j - 1) :
           rs[i].idempotency_key = rs[j].idempotency_key => j - i > IdemWindow

Linear(c) ==
  /\ \A i \in 2..Len(CtxRecords(c)) :
       CtxRecords(c)[i].parent_turn_id = CtxRecords(c)[i - 1].turn_id
  /\ CtxRecords(c) # <<>> =>
       heads[c].head_turn_id = CtxRecords(c)[Len(CtxRecords(c))].turn_id

C5_SyncedTurnBecomesHead ==
  (open /\ crash.at = "head") =>
    /\ crash.context_id \in Contexts
    /\ GetHead(crash.context_id) =
         [head_turn_id |-> crash.turn_id, head_depth |-> crash.depth]
    /\ HasTurn(crash.turn_id)
    /\ GetLast(crash.context_id, Unbounded) # <<>>
    /\ LET last == GetLast(crash.context_id, Unbounded)
       IN /\ last[Len(last)].turn_id = crash.turn_id
          /\ last[Len(last)].context_id = crash.context_id
          /\ last[Len(last)].depth = crash.depth

\* C5 witness: the store is open again after such a crash of an append.
C5_Witness ==
  /\ open
  /\ crash.at = "head"
  /\ crash.depth >= 1
  /\ heads[crash.context_id].head_turn_id = crash.turn_id

\* C6: in an open store every record of the log is whole, every index entry
\* names a whole record at its position, and every head and every read returns
\* whole records only; a torn tail does not survive recovery.
C6_NoPartialRecord ==
  open =>
    /\ \A i \in 1..Len(log) : log[i].whole
    /\ Len(tidx) = Len(log)
    /\ \A i \in 1..Len(tidx) :
         tidx[i].pos = i /\ tidx[i].turn_id = log[i].turn_id
    /\ \A c \in Contexts :
         /\ HasTurn(heads[c].head_turn_id)
         /\ GetTurn(heads[c].head_turn_id).whole
         /\ \A i \in 1..Len(GetLast(c, Unbounded)) : GetLast(c, Unbounded)[i].whole

\* C6 witness: the store is open again after a crash that tore the tail record.
C6_Witness ==
  /\ open
  /\ crash.torn
  /\ Len(log) >= 1

\* C8: a store closed and opened again answers get_head and get_last for
\* every context as it did at the close.
C8_ReopenKeepsView ==
  (open /\ closeView.taken) => View = closeView.view

\* C8 witness: a reopened store holding a context with appended turns and a
\* fork never appended to.
C8_Witness ==
  /\ open
  /\ closeView.taken
  /\ \E c \in Contexts : FreshFork(c)
  /\ \E c \in Contexts : heads[c].head_depth >= 1

\* C9: turn_ids are unique and strictly increase in allocation order, which is
\* the order of the log, also across a restart and a crash before the counter
\* was flushed.
C9_TurnIdsIncrease ==
  \A i, j \in 1..Len(log) : i < j => log[i].turn_id < log[j].turn_id

\* C10: a put of a digest already stored changes neither the pack nor the
\* index and returns the digest; the pack grows only by bytes whose digest was
\* absent, the bytes stored under a digest never change, and a get of a stored
\* digest returns the bytes that hash to it.
C10_WriteOnce ==
  [][/\ \A b \in Payloads :
          (Idle /\ HasBlob(Blake3(b)) /\ BlobPut(b)) =>
            (UNCHANGED <<pack, bidx>> /\ res'.kind = "Ok" /\ res'.hash = Blake3(b))
     /\ \/ pack' = pack /\ bidx' = bidx
        \/ \E b \in Payloads :
             ~HasBlob(Blake3(b)) /\ pack' = Append(pack, b) /\ HasBlob(Blake3(b))'
     /\ \A b \in Payloads :
          HasBlob(Blake3(b)) => GetBlob(Blake3(b))' = GetBlob(Blake3(b))
     /\ \A b \in Payloads :
          HasBlob(Blake3(b))' => GetBlob(Blake3(b))' = b]_vars

\* C10 witness: a payload appended twice and then put again is stored once.
C10_Witness ==
  /\ Readable
  /\ res.kind = "Ok"
  /\ res.turn_id = 0
  /\ res.hash = Blake3("a")
  /\ \E i, j \in 1..Len(log) : i < j /\ log[i].payload_hash = res.hash
                                     /\ log[j].payload_hash = res.hash
  /\ Len(SelectSeq(pack, LAMBDA x : x = "a")) = 1

\* The whole chain of context c, oldest first.
Chain(c) == GetLast(c, Unbounded)

\* The step writes the head of context c (step 6 of an append to c).
Advances(c) == c \in Contexts /\ Len(heads') = Len(heads) /\ heads'[c] # heads[c]

\* C11: a fork shares the source's chain up to the fork point: the step that
\* forks gives the new context the chain and the head of its source, an
\* append to a context extends that context's chain by the new turn, and it
\* leaves get_last and get_head of every other context as they were; a
\* context's chain is the chain of the turn it was forked at followed by the
\* turns appended to it.
C11_ForkSharesChain ==
  [][ /\ (Len(heads') = Len(heads) + 1 /\ log' = log)
           => \E src \in Contexts, new \in {Len(heads) + 1} :
                /\ GetHead(new)' = GetHead(src)
                /\ Chain(new)' = Chain(src)
                /\ Chain(src)' = Chain(src)
      /\ \A c \in Contexts :
           Advances(c)
           => /\ Chain(c)' = Append(Chain(c), GetTurn(heads'[c].head_turn_id))
              /\ \A a \in Contexts \ {c} :
                   GetHead(a)' = GetHead(a) /\ Chain(a)' = Chain(a)
      /\ \A c \in Contexts :
           (Readable' /\ CtxRecords(c)' # <<>>)
           => Chain(c)' = Walk(CtxRecords(c)[1].parent_turn_id, Unbounded)'
                            \o CtxRecords(c)'
    ]_vars

\* Scenario 2: three appends to A, fork A to B, one append to B; get_last(A)
\* has 4 turns and get_last(B) has 5, the first 4 of them A's.
C11_Witness ==
  /\ Readable
  /\ \E a, b \in Contexts :
       /\ a # b
       /\ Len(CtxRecords(a)) = 4
       /\ Len(CtxRecords(b)) = 1
       /\ Len(Chain(a)) = 4
       /\ Len(Chain(b)) = 5
       /\ SubSeq(Chain(b), 1, 4) = Chain(a)
       /\ GetHead(a).head_turn_id = Chain(b)[5].parent_turn_id

\* The smaller of two numbers.
Min(a, b) == IF a < b THEN a ELSE b

\* C12: the turns get_last(c, limit) returns are min(limit, chain length)
\* turns of the log, oldest first: the last one is the head of c, each one is
\* the parent of the next, and fewer than limit are returned only when the
\* first one is a root.
C12_GetLastIsRecentSuffix ==
  res.kind = "Turns"
  => LET r == res.turns
         c == res.context_id
         n == Len(r)
     IN /\ n = Min(res.limit, heads[c].head_depth + 1)
        /\ n = Min(res.limit, Len(Chain(c)))
        /\ \A i \in 1..n : \E j \in 1..Len(log) : r[i] = log[j]
        /\ n > 0 => r[n].turn_id = heads[c].head_turn_id
        /\ \A i \in 1..(n - 1) : r[i].turn_id = r[i + 1].parent_turn_id
        /\ \A i \in 1..(n - 1) : r[i].depth + 1 = r[i + 1].depth
        /\ n < res.limit => r[1].parent_turn_id = 0

\* A read with a limit below the chain length of a forked context.
C12_Witness ==
  /\ res.kind = "Turns"
  /\ res.limit = 2
  /\ Len(res.turns) = 2
  /\ Len(Chain(res.context_id)) = 4
  /\ res.turns[1].context_id # res.turns[2].context_id

\* What execute returns for a subexpression of the answered query.
Sub(expr) == execute(expr, indexes, answer.live_contexts, answer.now)

\* C13: the answer to A AND B is the intersection, and the answer to A OR B
\* the union, of what A and B return when both evaluate without error.
C13_AndOrAreSetOps ==
  (answer.asked /\ answer.expr.type \in {"and", "or"})
  => LET l == Sub(answer.expr.left)
         r == Sub(answer.expr.right)
     IN (l.ok /\ r.ok)
        => /\ answer.result.ok
           /\ answer.expr.type = "and"
                => answer.result.ids = {c \in l.ids : c \in r.ids}
           /\ answer.expr.type = "or"
                => answer.result.ids = {c \in l.ids \cup r.ids : TRUE}

\* An AND of two comparisons that match different, overlapping sets.
C13_Witness ==
  /\ answer.asked
  /\ answer.expr.type = "and"
  /\ Sub(answer.expr.left).ok /\ Sub(answer.expr.right).ok
  /\ answer.result.ids # {}
  /\ answer.result.ids # Sub(answer.expr.left).ids
  /\ Sub(answer.expr.right).ids # Sub(answer.expr.left).ids

\* C14: the answer to NOT A is the set of all indexed contexts without the
\* contexts A returns.
C14_NotIsComplement ==
  (answer.asked /\ answer.expr.type = "not" /\ Sub(answer.expr.inner).ok)
  => /\ answer.result.ok
     /\ \A c \in answer.result.ids :
          c \in indexes.all_context_ids /\ c \notin Sub(answer.expr.inner).ids
     /\ \A c \in indexes.all_context_ids :
          c \in Sub(answer.expr.inner).ids \/ c \in answer.result.ids

\* A NOT that removes one of two indexed contexts.
C14_Witness ==
  /\ answer.asked
  /\ answer.expr.type = "not"
  /\ answer.expr.inner.type = "comparison"
  /\ Sub(answer.expr.inner).ok
  /\ Sub(answer.expr.inner).ids # {}
  /\ answer.result.ids # {}

\* C15: the answer to NOT (NOT A) is what A returns.
C15_DoubleNegation ==
  (answer.asked /\ answer.expr.type = "not" /\ answer.expr.inner.type = "not")
  => answer.result = Sub(answer.expr.inner.inner)

\* The value of a string field in a context's metadata, as an Option.
FieldValue(metadata, field) ==
  CASE field = "tag" -> metadata.client_tag
    [] field = "title" -> metadata.title
    [] metadata.provenance = None -> None
    [] field = "user" -> Unwrap(metadata.provenance).on_behalf_of
    [] field = "service" -> Unwrap(metadata.provenance).service_name
    [] field = "host" -> Unwrap(metadata.provenance).host_name
    [] field = "trace_id" -> Unwrap(metadata.provenance).trace_id

\* The pairs <<context, value>> of the field in every metadata given to the
\* indexes, replaced ones included.
EverIndexed(field) ==
  {<<e[1], Unwrap(FieldValue(e[2], field))>> :
     e \in {x \in supplied : FieldValue(x[2], field) # None}}

\* The pairs <<context, value>> of the field in the metadata last given to
\* the indexes for each context.
NowIndexed(field) ==
  {<<c, Unwrap(FieldValue(Unwrap(latest[c].metadata), field))>> :
     c \in {x \in ContextIds :
              /\ latest[x].metadata # None
              /\ FieldValue(Unwrap(latest[x].metadata), field) # None}}

\* The contexts of the pairs.
Ids(pairs) == {e[1] : e \in pairs}

\* The answered query compares one of the fields with the operator.
Asked(fields, operator) ==
  /\ answer.asked
  /\ answer.expr.type = "comparison"
  /\ answer.expr.field \in fields
  /\ answer.expr.operator = operator

\* C16: after any build_from_cache and add_context calls, field ^= p on tag,
\* title, user, service and host returns exactly the indexed contexts whose
\* value of the field begins with p (case-sensitive), none missing and none
\* extra; a context's value is the one in the metadata last given for it.
C16_PrefixOfCurrentValue ==
  Asked({"tag", "title", "user", "service", "host"}, "Starts")
  => answer.result =
       OkIds(Ids({e \in NowIndexed(answer.expr.field) :
                    StartsWith(e[2], answer.expr.value.value)}))

\* What ^= answers: the contexts for which a value given to the indexes for
\* the field by any call, current or replaced, begins with p.
StartsAnswersEverIndexed ==
  Asked({"tag", "title", "user", "service", "host"}, "Starts")
  => /\ answer.result =
          OkIds(Ids({e \in EverIndexed(answer.expr.field) :
                       StartsWith(e[2], answer.expr.value.value)}))
     /\ answer.result.ids \subseteq indexes.all_context_ids

\* C17: field ^~= p on tag, title, user and service returns exactly the
\* indexed contexts whose value of the field, lowercased, begins with p
\* lowercased.
C17_PrefixCiOfCurrentValue ==
  Asked({"tag", "title", "user", "service"}, "StartsCi")
  => answer.result =
       OkIds(Ids({e \in NowIndexed(answer.expr.field) :
                    StartsWith(ToLowercase(e[2]),
                               ToLowercase(answer.expr.value.value))}))

\* What ^~= answers: the contexts for which a value given to the indexes for
\* the field by any call, lowercased, begins with p lowercased.
StartsCiAnswersEverIndexed ==
  Asked({"tag", "title", "user", "service"}, "StartsCi")
  => answer.result =
       OkIds(Ids({e \in EverIndexed(answer.expr.field) :
                    StartsWith(ToLowercase(e[2]),
                               ToLowercase(answer.expr.value.value))}))

\* C18: field ~= v on tag, title, user and service returns exactly the
\* indexed contexts whose value of the field equals v when both are
\* lowercased, and the contexts field = v returns are among them.
C18_EqCiOfCurrentValue ==
  Asked({"tag", "title", "user", "service"}, "EqCi")
  => /\ answer.result =
          OkIds(Ids({e \in NowIndexed(answer.expr.field) :
                       ToLowercase(e[2]) = ToLowercase(answer.expr.value.value)}))
     /\ Sub(Comparison(answer.expr.field, "Eq", answer.expr.value)).ids
          \subseteq answer.result.ids

\* What ~= answers: the contexts for which a value given to the indexes for
\* the field by any call equals v when both are lowercased; the contexts
\* field = v returns are among them.
EqCiAnswersEverIndexed ==
  Asked({"tag", "title", "user", "service"}, "EqCi")
  => /\ answer.result =
          OkIds(Ids({e \in EverIndexed(answer.expr.field) :
                       ToLowercase(e[2]) = ToLowercase(answer.expr.value.value)}))
     /\ Sub(Comparison(answer.expr.field, "Eq", answer.expr.value)).ids
          \subseteq answer.result.ids

\* C19: whenever f = v and f != v both evaluate without error, f != v returns
\* the universe minus what f = v returns; the two results are disjoint and
\* their union is the universe, so a context with no value for f is returned
\* by f != v.
C19_NeqIsComplementOfEq ==
  (/\ answer.asked
   /\ answer.expr.type = "comparison"
   /\ answer.expr.operator = "Neq"
   /\ answer.result.ok
   /\ Sub(Comparison(answer.expr.field, "Eq", answer.expr.value)).ok)
  => LET eq == Sub(Comparison(answer.expr.field, "Eq", answer.expr.value)).ids
         neq == answer.result.ids
     IN /\ neq = indexes.all_context_ids \ eq
        /\ neq \cap eq = {}
        /\ neq \cup eq = indexes.all_context_ids
        /\ \A c \in indexes.all_context_ids :
             (/\ answer.expr.field = "trace_id"
              /\ \A e \in supplied : e[1] = c => FieldValue(e[2], "trace_id") = None)
             => c \in neq

\* trace_id != "a" answered over two indexed contexts, one with that trace id
\* and one with no trace id, which is returned.
C19_Witness ==
  /\ answer.asked
  /\ answer.expr = Comparison("trace_id", "Neq", StringValue(<<97>>))
  /\ indexes.all_context_ids = {1, 2}
  /\ Sub(Comparison("trace_id", "Eq", StringValue(<<97>>))).ids = {1}
  /\ answer.result = OkIds({2})
  /\ \A e \in supplied : e[1] = 2 => FieldValue(e[2], "trace_id") = None

\* f = v1 OR ... OR f = vn for the first n elements of the list.
RECURSIVE OrOfEq(_, _, _)
OrOfEq(field, list, n) ==
  IF n = 1 THEN Comparison(field, "Eq", list[1])
  ELSE Or(OrOfEq(field, list, n - 1), Comparison(field, "Eq", list[n]))

\* The answered query is f IN (v1, ..., vn).
AskedIn ==
  /\ answer.asked
  /\ answer.expr.type = "comparison"
  /\ answer.expr.operator = "In"
  /\ answer.expr.value.type = "list"

\* C20: on every field that supports IN, f IN (v1, ..., vn) has the same
\* outcome, result set or error, as f = v1 OR ... OR f = vn.
C20_InIsOrOfEq ==
  AskedIn
  => answer.result =
       Sub(OrOfEq(answer.expr.field, answer.expr.value.values,
                  Len(answer.expr.value.values)))

\* What IN answers: the union of the exact matches of the elements that have
\* the field's type, the same as the OR when every element has it.
InAnswersOrOfConvertible ==
  AskedIn
  => LET list == answer.expr.value.values
         numeric == answer.expr.field \in {"id", "parent", "root"}
         fits == {i \in 1..Len(list) :
                    list[i].type = IF numeric THEN "number" ELSE "string"}
     IN /\ answer.result =
             OkIds(UNION {Sub(Comparison(answer.expr.field, "Eq", list[i])).ids :
                            i \in fits})
        /\ fits = 1..Len(list)
             => answer.result = Sub(OrOfEq(answer.expr.field, list, Len(list)))

\* The answered query is a comparison.
AskedComparison == answer.asked /\ answer.expr.type = "comparison"

\* The operators the operator table gives each field.
Supported(field) ==
  CASE field \in {"tag", "title", "user", "service"} ->
         {"Eq", "Neq", "EqCi", "Starts", "StartsCi", "In"}
    [] field = "host" -> {"Eq", "Neq", "Starts", "In"}
    [] field \in {"id", "label", "parent", "root"} -> {"Eq", "Neq", "In"}
    [] field = "trace_id" -> {"Eq", "Neq"}
    [] field \in {"created", "depth"} -> {"Eq", "Neq", "Gt", "Gte", "Lt", "Lte"}
    [] field = "is_live" -> {"Eq"}

\* C21: an operator outside the field's supported set makes execute return
\* an InvalidOperator error and no result set, whatever the value is.
C21_UnsupportedOperatorRejected ==
  (AskedComparison /\ answer.expr.operator \notin Supported(answer.expr.field))
  => answer.result = Err("InvalidOperator")

\* What execute answers to an unsupported operator: created, depth and is_live
\* look at the value first and report InvalidValue for a value they cannot
\* use; host answers ~= and ^~= as = and ^=; every other case is
\* InvalidOperator whatever the value is.
UnsupportedOperatorAnswer ==
  (AskedComparison /\ answer.expr.operator \notin Supported(answer.expr.field))
  => LET f == answer.expr.field
         v == answer.expr.value
     IN answer.result =
          CASE f = "host" /\ answer.expr.operator = "EqCi" ->
                 Sub(Comparison(f, "Eq", v))
            [] f = "host" /\ answer.expr.operator = "StartsCi" ->
                 Sub(Comparison(f, "Starts", v))
            [] f \in {"created", "depth", "is_live"}
               /\ ~Sub(Comparison(f, "Eq", v)).ok ->
                 Err("InvalidValue")
            [] OTHER -> Err("InvalidOperator")

\* The value does not have the semantic type of the field; for IN, the value
\* is not a list or one of its elements does not have that type.
WrongType(field, operator, value) ==
  LET Wrong(v) ==
        CASE field \in {"id", "parent", "root", "depth"} -> v.type # "number"
          [] field \in {"tag", "title", "user", "service", "host", "label",
                        "trace_id"} -> v.type = "number"
          [] field = "is_live" ->
               ~(v.type = "string"
                 /\ v.value \in {<<116, 114, 117, 101>>, <<102, 97, 108, 115, 101>>})
          [] field = "created" -> v.type \in {"string", "date", "list"}
  IN IF operator = "In"
     THEN \/ value.type # "list"
          \/ \E i \in 1..Len(value.values) : Wrong(value.values[i])
     ELSE Wrong(value)

\* C22: a comparison whose value, or an element of whose IN list, does not
\* have the semantic type of the field makes execute return an InvalidValue
\* error instead of a result set.
C22_WrongTypeRejected ==
  (/\ AskedComparison
   /\ answer.expr.operator \in Supported(answer.expr.field)
   /\ WrongType(answer.expr.field, answer.expr.operator, answer.expr.value))
  => answer.result = Err("InvalidValue")

\* What execute answers to a value of the wrong type: InvalidValue, except
\* that an IN list of the wrong elements is answered with the matches of the
\* other elements and is_live takes every string other than "true" as false.
WrongTypeAnswer ==
  (/\ AskedComparison
   /\ answer.expr.operator \in Supported(answer.expr.field)
   /\ WrongType(answer.expr.field, answer.expr.operator, answer.expr.value))
  => \/ answer.result = Err("InvalidValue")
     \/ /\ answer.expr.operator = "In"
        /\ answer.expr.value.type = "list"
        /\ answer.result.ok
     \/ /\ answer.expr.field = "is_live"
        /\ answer.expr.value.type = "string"
        /\ answer.result =
             Sub(Comparison("is_live", "Eq", StringValue(<<102, 97, 108, 115, 101>>)))

\* The field texts of the comparisons of an expression.
RECURSIVE Fields(_)
Fields(expr) ==
  CASE expr.type \in {"and", "or"} -> Fields(expr.left) \cup Fields(expr.right)
    [] expr.type = "not" -> Fields(expr.inner)
    [] OTHER -> {expr.field}

\* The 13 valid field names' texts, in the order of FieldName::all.
ValidFields == [i \in 1..Len(FieldNames) |-> FieldNames[i][1]]

\* The offsets at which the name foo stands in the text, and the text with
\* every foo replaced by tag.
FooAt(input) ==
  {o \in 0..(Len(input) - 3) : SubSeq(input, o + 1, o + 3) = <<102, 111, 111>>}
FooAsTag(input) ==
  [i \in 1..Len(input) |->
     IF (i - 1) \in FooAt(input) THEN 116
     ELSE IF (i - 2) \in FooAt(input) THEN 97
     ELSE IF (i - 3) \in FooAt(input) THEN 103
     ELSE input[i]]

\* C23: parse returns UnknownField, with the offending name, its position
\* and a message listing the 13 valid field names, when the identifier in the
\* field position of a comparison is not one of those names (the first error
\* met is the one reported: a text that does not tokenize, or has a syntax
\* error before that identifier, is a SyntaxError); an AST that parse returns
\* has no comparison on an unknown field, and execute does not report
\* UnknownField for it.
C23_UnknownFieldAtParse ==
  parsing.done
  => LET r == parsing.result
         e == Unwrap(r.error)
         input == parsing.input
         o == CHOOSE x \in FooAt(input) : \A y \in FooAt(input) : x <= y
         r0 == parse(FooAsTag(input))
     IN /\ r.ok => Fields(Unwrap(r.value).ast) \subseteq {ValidFields[i] : i \in 1..13}
        /\ (r.ok /\ answer.asked) => answer.result.error_type # "UnknownField"
        /\ (~r.ok /\ e.error_type = "UnknownField")
           => /\ e.field # None
              /\ Unwrap(e.field) \notin {ValidFields[i] : i \in 1..13}
              /\ e.message = [text |-> "Unknown field", name |-> Unwrap(e.field),
                             valid_fields |-> ValidFields]
              /\ Len(ValidFields) = 13
              /\ e.position # None
              /\ SubSeq(input, Unwrap(e.position).offset + 1,
                        Unwrap(e.position).offset + Len(Unwrap(e.field)))
                   = Unwrap(e.field)
        /\ FooAt(input) # {}
           => IF tokenize(input, Position(1, 1, 0), <<>>).ok
                 /\ (r0.ok \/ Unwrap(Unwrap(r0.error).position).offset > o)
              THEN /\ ~r.ok
                   /\ e.error_type = "UnknownField"
                   /\ e.field = Some(<<102, 111, 111>>)
                   /\ Unwrap(e.position).offset = o
              ELSE /\ ~r.ok
                   /\ e = Unwrap(r0.error)

\* tag = 1 AND NOT (foo = 1 OR id = 2): the unknown name in the second
\* comparison is reported with its position, line 1, column 18.
C23_Witness ==
  /\ parsing.done
  /\ parsing.input = <<116, 97, 103, 32, 61, 32, 49, 32, 65, 78, 68, 32, 78, 79, 84, 32, 40, 102, 111, 111, 32, 61, 32, 49, 32, 79, 82, 32, 105, 100, 32, 61, 32, 50, 41>>
  /\ ~parsing.result.ok
  /\ Unwrap(parsing.result.error).error_type = "UnknownField"
  /\ Unwrap(parsing.result.error).field = Some(<<102, 111, 111>>)
  /\ Unwrap(parsing.result.error).position = Some(Position(1, 18, 17))

\* The text of an expression without parentheses, for comparisons field = n
\* with a one-digit number.
RECURSIVE Flat(_)
Flat(expr) ==
  CASE expr.type = "and" -> Flat(expr.left) \o <<32, 65, 78, 68, 32>> \o Flat(expr.right)
    [] expr.type = "or" -> Flat(expr.left) \o <<32, 79, 82, 32>> \o Flat(expr.right)
    [] expr.type = "not" -> <<78, 79, 84, 32>> \o Flat(expr.inner)
    [] OTHER -> expr.field \o <<32, 61, 32, 48 + expr.value.number>>

\* The shape a text without parentheses gives: a NOT holds a comparison, an
\* AND holds no OR and no AND on its right, an OR holds no OR on its right.
RECURSIVE Shaped(_)
Shaped(expr) ==
  CASE expr.type = "and" -> /\ expr.left.type # "or"
                            /\ expr.right.type \notin {"or", "and"}
                            /\ Shaped(expr.left) /\ Shaped(expr.right)
    [] expr.type = "or" -> /\ expr.right.type # "or"
                           /\ Shaped(expr.left) /\ Shaped(expr.right)
    [] expr.type = "not" -> expr.inner.type = "comparison"
    [] OTHER -> TRUE

\* The comparisons tag = 1 and id = 2 as parse builds them.
CmpTag == Comparison(<<116, 97, 103>>, "Eq", NumberValue(1))
CmpId == Comparison(<<105, 100>>, "Eq", NumberValue(2))

\* C24: NOT binds tighter than AND and AND tighter than OR, both binary
\* operators are left-associative and parentheses override: a OR b AND c is
\* Or(a, And(b, c)), NOT a AND b is And(Not(a), b), (a OR b) AND c is
\* And(Or(a, b), c); NOT takes a primary only, so NOT NOT a is a SyntaxError.
C24_Precedence ==
  parsing.done
  => LET r == parsing.result
         input == parsing.input
         ast == Unwrap(r.value).ast
         Parsed(text, tree) == parse(text).ok /\ Unwrap(parse(text).value).ast = tree
         Is(tree) == r.ok /\ r.value = Some([raw |-> input, ast |-> tree])
     IN /\ input = <<116, 97, 103, 32, 61, 32, 49, 32, 79, 82, 32, 105, 100, 32, 61, 32, 50, 32, 65, 78, 68, 32, 116, 97, 103, 32, 61, 32, 49>> => Is(Or(CmpTag, And(CmpId, CmpTag)))
        /\ input = <<78, 79, 84, 32, 116, 97, 103, 32, 61, 32, 49, 32, 65, 78, 68, 32, 105, 100, 32, 61, 32, 50>> => Is(And(Not(CmpTag), CmpId))
        /\ input = <<40, 116, 97, 103, 32, 61, 32, 49, 32, 79, 82, 32, 105, 100, 32, 61, 32, 50, 41, 32, 65, 78, 68, 32, 116, 97, 103, 32, 61, 32, 49>> => Is(And(Or(CmpTag, CmpId), CmpTag))
        /\ input = <<116, 97, 103, 32, 61, 32, 49, 32, 79, 82, 32, 105, 100, 32, 61, 32, 50, 32, 79, 82, 32, 116, 97, 103, 32, 61, 32, 49>> => Is(Or(Or(CmpTag, CmpId), CmpTag))
        /\ input = <<116, 97, 103, 32, 61, 32, 49, 32, 65, 78, 68, 32, 105, 100, 32, 61, 32, 50, 32, 65, 78, 68, 32, 116, 97, 103, 32, 61, 32, 49>> => Is(And(And(CmpTag, CmpId), CmpTag))
        /\ (\E o \in 0..(Len(input) - 7) : SubSeq(input, o + 1, o + 7) = <<78, 79, 84, 32, 78, 79, 84>>)
           => /\ ~r.ok
              /\ Unwrap(r.error).error_type \in {"SyntaxError", "UnknownField"}
        /\ input = <<78, 79, 84, 32, 78, 79, 84, 32, 116, 97, 103, 32, 61, 32, 49>>
           => r = Bad(SyntaxError("Expected field name", Position(1, 5, 4)))
        /\ (r.ok /\ input \notin OtherQueries
            /\ \A i \in 1..Len(input) : input[i] \notin {40, 41})
           => Shaped(ast) /\ Flat(ast) = input
        /\ r.ok
           => /\ Parsed(<<40>> \o input \o <<41>>, ast)
              /\ Parsed(<<78, 79, 84, 32, 40>> \o input \o <<41>>, Not(ast))
              /\ Parsed(<<40>> \o input \o <<41, 32, 65, 78, 68, 32, 116, 97, 103, 32, 61, 32, 49>>, And(ast, CmpTag))
              /\ Parsed(<<116, 97, 103, 32, 61, 32, 49, 32, 79, 82, 32, 40>> \o input \o <<41>>, Or(CmpTag, ast))

\* NOT tag = 1 OR id = 2 AND tag = 1 parsed into Or(Not(a), And(b, a)).
C24_Witness ==
  /\ parsing.done
  /\ parsing.input = <<78, 79, 84, 32, 116, 97, 103, 32, 61, 32, 49, 32, 79, 82, 32, 105, 100, 32, 61, 32, 50, 32, 65, 78, 68, 32, 116, 97, 103, 32, 61, 32, 49>>
  /\ parsing.result.ok
  /\ Unwrap(parsing.result.value).ast = Or(Not(CmpTag), And(CmpId, CmpTag))

\* Byte i of a stream, counted from 1, and the payload_len that the first
\* four bytes of a stream declare.
ByteAt(stream, i) == IF i <= Len(stream.bytes) THEN stream.bytes[i] ELSE 0
Declared(stream) ==
  ByteAt(stream, 1) + 256 * ByteAt(stream, 2) + 65536 * ByteAt(stream, 3)
  + 16777216 * ByteAt(stream, 4)

\* C25: read_frame rejects with InvalidInput every frame that declares a
\* payload_len above 64 MiB, having read the four bytes of the length and
\* nothing else, whether or not the rest of the frame is there; and it
\* returns every frame of at most 64 MiB whose 16 header bytes and payload
\* bytes are all present, with the declared number of payload bytes.
C25_OversizedFrameRejected ==
  (wire.stage = "frame" /\ Length(wire.input) >= 4)
  => LET r == wire.result
         stream == wire.input
     IN /\ Declared(stream) > 67108864
           => /\ ~r.ok
              /\ Unwrap(r.error).kind = "InvalidInput"
              /\ Length(r.at) = Length(stream) - 4
        /\ (Declared(stream) <= 67108864 /\ Length(stream) >= 16 + Declared(stream))
           => /\ r.ok
              /\ Unwrap(r.value).header.len = Declared(stream)
              /\ Unwrap(r.value).header.msg_type
                   = ByteAt(stream, 5) + 256 * ByteAt(stream, 6)
              /\ Unwrap(r.value).header.flags
                   = ByteAt(stream, 7) + 256 * ByteAt(stream, 8)
              /\ Length(Unwrap(r.value).payload) = Declared(stream)
              /\ \A i \in 1..Len(Unwrap(r.value).payload.bytes) :
                   Unwrap(r.value).payload.bytes[i] = ByteAt(stream, 16 + i)
              /\ Length(r.at) = Length(stream) - 16 - Declared(stream)

\* A stream of the four bytes of a length of 64 MiB + 1 and nothing more is
\* answered InvalidInput.
C25_Witness ==
  /\ wire.stage = "frame"
  /\ wire.input = [bytes |-> <<1, 0, 0, 4>>, zeros |-> 0]
  /\ ~wire.result.ok
  /\ Unwrap(wire.result.error).kind = "InvalidInput"

\* A frame declaring exactly 64 MiB with all its bytes present is returned.
C25_WitnessAccepted ==
  /\ wire.stage = "frame"
  /\ Declared(wire.input) = 67108864
  /\ Length(wire.input) = 16 + 67108864
  /\ wire.result.ok
  /\ Length(Unwrap(wire.result.value).payload) = 67108864

\* C26 as stated: read_frame returns Io whenever the stream ends before the
\* 16 header bytes and the declared payload bytes, and a frame it returns
\* has a payload of the declared length.
C26_TruncatedIsIo ==
  wire.stage = "frame"
  => LET r == wire.result
         stream == wire.input
     IN /\ (Length(stream) < 16 \/ Length(stream) < 16 + Declared(stream))
           => (~r.ok /\ Unwrap(r.error).kind = "Io")
        /\ r.ok => Length(Unwrap(r.value).payload) = Unwrap(r.value).header.len

\* C26, amended: read_frame returns Io whenever the stream ends before the
\* four bytes of the length, or, with a length of at most 64 MiB, before the
\* 16 header bytes and the declared payload bytes (a length above 64 MiB is
\* InvalidInput even when the stream ends right after it); a frame it
\* returns has a payload of exactly the declared length, all of it read from
\* the stream.
C26_TruncatedIsIoUnlessOversized ==
  wire.stage = "frame"
  => LET r == wire.result
         stream == wire.input
     IN /\ (\/ Length(stream) < 4
            \/ /\ Declared(stream) <= 67108864
               /\ Length(stream) < 16 + Declared(stream))
           => (~r.ok /\ Unwrap(r.error).kind = "Io")
        /\ r.ok => /\ Length(Unwrap(r.value).payload) = Unwrap(r.value).header.len
                   /\ Unwrap(r.value).header.len = Declared(stream)
                   /\ Length(stream) >= 16 + Declared(stream)

\* A whole header declaring 2 payload bytes followed by 1 byte: Io.
C26_Witness ==
  /\ wire.stage = "frame"
  /\ Len(wire.input.bytes) = 16
  /\ Declared(wire.input) = 2
  /\ wire.input.zeros = 1
  /\ ~wire.result.ok
  /\ Unwrap(wire.result.error).kind = "Io"

\* C27: a request payload that its parse function refuses (CtxCreate,
\* CtxFork, GetHead, GetLast, AppendTurn, PutBlob, AttachFs, Hello) is
\* refused with InvalidInput.
C27_MalformedIsInvalidInput ==
  (/\ wire.stage = "request"
   /\ wire.msg \in {"CtxCreate", "CtxFork", "GetHead", "GetLast", "AppendTurn",
                    "PutBlob", "AttachFs", "Hello"}
   /\ ~wire.result.ok)
  => Unwrap(wire.result.error).kind = "InvalidInput"

\* What the parse functions do with a payload they refuse: InvalidInput from
\* the length checks of AttachFs, PutBlob and Hello and for a string that is
\* not UTF-8, Io for every read that runs past the end of the payload: an
\* AppendTurn answers InvalidInput only for a type id that is not UTF-8, and
\* of the eight only AttachFs never answers Io.
MalformedAnswer ==
  (wire.stage = "request" /\ ~wire.result.ok)
  => LET kind == Unwrap(wire.result.error).kind
         n == Length(wire.input)
     IN /\ kind \in {"InvalidInput", "Io"}
        /\ wire.msg \in {"CtxCreate", "CtxFork", "GetHead"} => (kind = "Io" /\ n < 8)
        /\ wire.msg = "GetLast" => (kind = "Io" /\ n < 16)
        /\ wire.msg = "AttachFs" => (kind = "InvalidInput" /\ n < 40)
        /\ wire.msg = "GetBlob" => (kind = "InvalidInput" /\ n # 32)
        /\ (wire.msg = "PutBlob" /\ n < 36) => kind = "InvalidInput"
        /\ (wire.msg = "PutBlob" /\ n >= 36) => kind = "Io"
        /\ (wire.msg = "Hello" /\ n < 4) => kind = "InvalidInput"
        /\ (wire.msg = "AppendTurn" /\ n < 20) => kind = "Io"
        /\ (wire.msg = "AppendTurn" /\ kind = "InvalidInput")
           => \E k \in 1..(n - 20) :
                /\ ByteAt(wire.input, 17) = k
                /\ ~from_utf8(SubSeq(wire.input.bytes, 21, 20 + k))

\* A CtxCreate payload of seven bytes is refused with Io.
C27_Witness ==
  /\ wire.stage = "request"
  /\ wire.msg = "CtxCreate"
  /\ Length(wire.input) = 7
  /\ ~wire.result.ok
  /\ Unwrap(wire.result.error).kind = "Io"

\* C28: a request that parse_append_turn returns has fs_root_hash = Some
\* exactly when bit 0 of the flags is set, and then it is the 32 bytes that
\* follow the idempotency key; without bit 0 the flags change nothing and
\* bytes after the key are ignored; with bit 0 the parse succeeds exactly
\* when the parse without it does and at least 32 bytes follow the key.
C28_FsRootHashIffBit0 ==
  (wire.stage = "request" /\ wire.msg = "AppendTurn")
  => LET r == wire.result
         plain == parse_append_turn(wire.input, 0)
         after == Explicit(Unwrap(TakeAvailable(plain.at, 32).value))
     IN /\ r.ok => (Unwrap(r.value).fs_root_hash # None <=> wire.flags % 2 = 1)
        /\ wire.flags % 2 = 0 => r = plain
        /\ wire.flags % 2 = 1
           => /\ r.ok <=> (plain.ok /\ Length(plain.at) >= 32)
              /\ r.ok => /\ Unwrap(r.value).fs_root_hash = Some(after)
                         /\ Len(after) = 32
                         /\ Unwrap(r.value)
                              = [Unwrap(plain.value) EXCEPT !.fs_root_hash = Some(after)]
                         /\ wire.input.zeros = 0
                            => after = [i \in 1..32 |-> 64 + i]

\* An AppendTurn with flags 1 and 33 bytes after the key: the first 32 of
\* them are the fs_root_hash.
C28_Witness ==
  /\ wire.stage = "request"
  /\ wire.msg = "AppendTurn"
  /\ wire.flags = 1
  /\ wire.result.ok
  /\ wire.input.zeros = 0
  /\ wire.input.bytes[Len(wire.input.bytes)] = 97
  /\ Unwrap(wire.result.value).fs_root_hash = Some([i \in 1..32 |-> 64 + i])

\* An AppendTurn with flags 1 and 31 bytes after the key is refused.
C28_WitnessShort ==
  /\ wire.stage = "request"
  /\ wire.msg = "AppendTurn"
  /\ wire.flags = 1
  /\ parse_append_turn(wire.input, 0).ok
  /\ Length(parse_append_turn(wire.input, 0).at) = 31
  /\ ~wire.result.ok

\* The mutexes locked on the path of the closure up to its current step.
LockedSoFar ==
  {Routes(http.route)[i].lock : i \in 1..http.step} \ {"none"}

\* C29: when request.respond is called, on every path through
\* handle_request, the guards of the store mutex and of the registry mutex
\* taken while the response was built have been dropped (while the closure
\* runs they are all held); and a step of an SSE streaming thread neither
\* takes nor releases a mutex.
C29_NoLockAcrossRespond ==
  /\ [](/\ http.pc \in {"returned", "responded"} => http.held = {}
        /\ http.pc = "closure" => http.held = LockedSoFar)
  /\ [][sse' # sse => http'.held = http.held]_vars

\* The response of GET /v1/contexts/:id/turns, built under both mutexes, is
\* written with none held.
C29_Witness ==
  /\ http.pc = "responded"
  /\ http.route = "turns"
  /\ http.step = 3
  /\ LockedSoFar = {"store", "registry"}
  /\ http.held = {}

\* An SSE thread has written an event while the handler holds the store
\* mutex.
C29_WitnessSse ==
  /\ http.pc = "closure"
  /\ "store" \in http.held
  /\ \E i \in 1..Len(sse) : sse[i] = "event"

\* C30: every failed request (an error of the closure, or a response with an
\* error status) is answered 404 for NotFound, 424 when the message names a
\* type descriptor, 422 for InvalidInput and for the CQL user errors of the
\* search endpoint, 500 for Corrupt and Io.
C30_FailuresFollowErrorMap ==
  http.pc = "responded"
  => LET r == http.result
         err == Unwrap(r.error)
     IN /\ ~r.ok
           => http.status =
                CASE err.kind = "NotFound" ->
                       IF \E i \in 1..(Len(err.why) - 1) :
                            err.why[i] = "type" /\ err.why[i + 1] = "descriptor"
                       THEN 424 ELSE 404
                  [] err.kind = "InvalidInput" -> 422
                  [] err.kind \in {"Corrupt", "Io"} -> 500
        /\ (r.ok /\ Unwrap(r.value).body \in {"cql error", "missing q"})
           => http.status = 422
        /\ http.status >= 400 => http.status \in {404, 424, 422, 500}

\* What the handler answers: an error of the closure gets the status of
\* map_error and its message; a response the closure built itself keeps its
\* status, and the search endpoint builds 400 for a CQL error and for a
\* missing q.
ErrorMapAnswer ==
  http.pc = "responded"
  => LET r == http.result
         err == Unwrap(r.error)
     IN /\ ~r.ok
           => /\ http.status =
                   CASE err.kind = "NotFound" ->
                          IF \E i \in 1..(Len(err.why) - 1) :
                               err.why[i] = "type" /\ err.why[i + 1] = "descriptor"
                          THEN 424 ELSE 404
                     [] err.kind = "InvalidInput" -> 422
                     [] err.kind \in {"Corrupt", "Io"} -> 500
              /\ http.message = err.why
        /\ r.ok => http.status = Unwrap(r.value).status
        /\ (r.ok /\ Unwrap(r.value).body \in {"cql error", "missing q"})
           => http.status = 400
        /\ http.status = 400 <=> (r.ok /\ http.route = "search"
                                  /\ Unwrap(r.value).body \in {"cql error", "missing q"})

\* A search whose query is a CQL user error is answered 400.
C30_Witness ==
  /\ http.pc = "responded"
  /\ http.route = "search"
  /\ http.result.ok
  /\ Unwrap(http.result.value).body = "cql error"
  /\ http.status = 400

\* The integer comparison d op v.
Compare(d, operator, v) ==
  CASE operator = "Eq" -> d = v
    [] operator = "Neq" -> d # v
    [] operator = "Gt" -> d > v
    [] operator = "Gte" -> d >= v
    [] operator = "Lt" -> d < v
    [] operator = "Lte" -> d <= v

\* The contexts whose head the indexes were given, with the depth given last.
WithHead == {c \in ContextIds : latest[c].head # None}
HeadDepth(c) == Unwrap(latest[c].head).head_depth

\* C33: depth op v, for every integer literal v, negative ones included, and
\* each of the six ordering operators, returns exactly the indexed contexts
\* whose head depth d satisfies d op v as integers.
C33_DepthComparesAsIntegers ==
  (/\ answer.asked
   /\ answer.expr.type = "comparison"
   /\ answer.expr.field = "depth")
  => answer.result =
       OkIds({c \in WithHead \cap indexes.all_context_ids :
                Compare(HeadDepth(c), answer.expr.operator, answer.expr.value.number)})

\* What execute_depth answers: the literal saturated at zero is compared with
\* every depth the indexes were ever given for a context, and != is the
\* universe without the contexts ever given that depth.
DepthAnswersSaturated ==
  (/\ answer.asked
   /\ answer.expr.type = "comparison"
   /\ answer.expr.field = "depth")
  => LET v == IF answer.expr.value.number < 0 THEN 0 ELSE answer.expr.value.number
         operator == answer.expr.operator
     IN answer.result =
          IF operator = "Neq"
          THEN OkIds(indexes.all_context_ids
                     \ {e[2] : e \in {x \in indexes.depth_btree : x[1] = v}})
          ELSE OkIds({e[2] : e \in {x \in indexes.depth_btree :
                                      Compare(x[1], operator, v)}})

\* C34: the set execute returns holds indexed contexts only, whatever the
\* expression, the indexes and the live set are; the live set may hold ids
\* that were never indexed.
C34_ResultInUniverse ==
  (answer.asked /\ answer.result.ok)
  => answer.result.ids \subseteq indexes.all_context_ids

\* What execute returns lies inside the universe together with the live set.
ResultInUniverseOrLive ==
  (answer.asked /\ answer.result.ok)
  => answer.result.ids \subseteq (indexes.all_context_ids \cup answer.live_contexts)

\* The depths d of 0..3 for which depth = d returns the context, and
\* the timestamps t for which created = t does.
DepthsOf(c) ==
  {d \in 0..3 :
     c \in execute(Comparison("depth", "Eq", NumberValue(d)), indexes, {}, 0).ids}
CreatedOf(c) ==
  {t \in 0..8 :
     c \in execute(Comparison("created", "Eq", NumberValue(t)), indexes, {}, 0).ids}

\* C35: after any build_from_cache and add_context calls, every context of
\* the universe matches depth = d for exactly one d, the head depth given
\* last for it, and created = t for exactly one t; depth >= 0 returns the
\* whole universe.
C35_OneDepthPerContext ==
  /\ \A c \in indexes.all_context_ids :
       /\ latest[c].head # None
       /\ DepthsOf(c) = {HeadDepth(c)}
       /\ Cardinality(CreatedOf(c)) = 1
  /\ execute(Comparison("depth", "Gte", NumberValue(0)), indexes, {}, 0)
       = OkIds(indexes.all_context_ids)

\* What the indexes hold: a context matches every depth and every timestamp
\* ever given for it, the ones given last among them, and no other.
DepthsEverGiven ==
  \A c \in indexes.all_context_ids :
    /\ latest[c].head # None
       => /\ HeadDepth(c) \in DepthsOf(c)
          /\ Unwrap(latest[c].head).created_at_unix_ms \in CreatedOf(c)
    /\ latest[c].head = None => (DepthsOf(c) = {} /\ CreatedOf(c) = {})
    /\ DepthsOf(c) \subseteq {h.head_depth : h \in AddHeads}
                              \cup UNION {{hs[i].head_depth : i \in 1..Len(hs)} : hs \in HeadLists}

\* C37: a created comparison against the relative date -N followed by m, h
\* or d is evaluated at now minus N minutes, hours or days in milliseconds,
\* or is an InvalidValue error; nothing overflows.
C37_RelativeDateNeverOverflows ==
  (/\ answer.asked
   /\ answer.expr.type = "comparison"
   /\ answer.expr.field = "created"
   /\ answer.expr.value.type = "date"
   /\ answer.expr.value.relative)
  => LET text == answer.expr.value.value
         amount == Decimal(SubSeq(text, 2, Len(text) - 1))
         unit == CASE text[Len(text)] = 109 -> 60000
                   [] text[Len(text)] = 104 -> 3600000
                   [] text[Len(text)] = 100 -> 86400000
     IN \/ answer.result = Err("InvalidValue")
        \/ answer.result =
             Sub(Comparison("created", answer.expr.operator,
                            NumberValue(answer.now - amount * unit)))

\* What the evaluation does: it is at now minus the amount when the amount is
\* no more than now, and the subtraction overflows when it is more.
RelativeDateAnswer ==
  (/\ answer.asked
   /\ answer.expr.type = "comparison"
   /\ answer.expr.field = "created"
   /\ answer.expr.value.type = "date"
   /\ answer.expr.value.relative)
  => LET text == answer.expr.value.value
         amount == Decimal(SubSeq(text, 2, Len(text) - 1))
         unit == CASE text[Len(text)] = 109 -> 60000
                   [] text[Len(text)] = 104 -> 3600000
                   [] text[Len(text)] = 100 -> 86400000
     IN IF amount * unit <= answer.now
        THEN answer.result =
               Sub(Comparison("created", answer.expr.operator,
                              NumberValue(answer.now - amount * unit)))
        ELSE answer.result = Err("SubtractOverflow")

\* C36: after a crash at any point and the recovery at open, every turn a
\* read returns (get_head, get_last, get_before and get_range_by_depth walk
\* the chains of the contexts) has its payload in the blob store: the digest
\* is indexed and get returns bytes that hash to it. The synthetic root
\* turns, whose empty payload no put stored, are not meant.
C36_ReadableTurnsHaveBlobs ==
  Readable =>
    \A c \in Contexts :
      \A i \in 1..Len(Chain(c)) :
        Chain(c)[i].depth >= 1 =>
          /\ HasBlob(Chain(c)[i].payload_hash)
          /\ GetBlob(Chain(c)[i].payload_hash) \notin {"NotFound", "Corrupt"}
          /\ Blake3(GetBlob(Chain(c)[i].payload_hash)) = Chain(c)[i].payload_hash

\* Two byte strings hold the same bytes, however their zeros are written.
SameBytes(a, b) ==
  /\ Length(a) = Length(b)
  /\ \A i \in 1..(Len(a.bytes) + Len(b.bytes)) : ByteAt(a, i) = ByteAt(b, i)

\* C39: read_frame applied to the bytes write_frame produced for a payload
\* of at most 64 MiB returns the same msg_type, flags, req_id and payload,
\* with len the length of the payload; frames written back to back are read
\* back in their order, and after the last one nothing is left over.
C39_FrameRoundTrip ==
  (/\ wire.stage \in {"echo", "ended"}
   /\ \A i \in 1..Len(wire.written) : Length(wire.written[i].payload) <= MAX_FRAME_SIZE)
  => /\ Len(wire.read) <= Len(wire.written)
     /\ \A i \in 1..Len(wire.read) :
          /\ wire.read[i].header =
               [len |-> Length(wire.written[i].payload),
                msg_type |-> wire.written[i].msg_type,
                flags |-> wire.written[i].flags,
                req_id |-> wire.written[i].req_id]
          /\ SameBytes(wire.read[i].payload, wire.written[i].payload)
     /\ Len(wire.read) = Len(wire.written) => Length(wire.input) = 0
     /\ wire.stage = "ended"
        => /\ Len(wire.read) = Len(wire.written)
           /\ Unwrap(wire.result.error).kind = "Io"

\* Two different frames, the second with a payload of MAX_FRAME_SIZE bytes,
\* have both been read back and the stream is at its end.
C39_Witness ==
  /\ wire.stage = "echo"
  /\ Len(wire.written) = 2
  /\ Len(wire.read) = 2
  /\ wire.written[1].payload = [bytes |-> <<1, 2, 3>>, zeros |-> 0]
  /\ wire.written[1].req_id = 16909060
  /\ wire.written[1].msg_type # wire.written[1].flags
  /\ wire.written[2].payload.zeros = MAX_FRAME_SIZE
  /\ wire.read[2].header.len = MAX_FRAME_SIZE
  /\ Length(wire.input) = 0

\* C31: do_sync uploads a tracked file exactly when it exists and its size
\* is greater than the size sync_state.json holds for it, whichever uploads
\* fail; the size held for a file changes only if its upload succeeded, and
\* an uploaded file's object holds the file's bytes.
C31_UploadsWhatGrew ==
  (s3.last.kind = "sync") =>
    /\ s3.last.attempted =
         {path \in DOMAIN s3.last.local :
            /\ s3.last.local[path] # None
            /\ Len(Unwrap(s3.last.local[path])) > s3.last.loaded[path]}
    /\ s3.last.done \subseteq s3.last.attempted
    /\ \A path \in DOMAIN s3.state :
         /\ (s3.state[path] # s3.last.loaded[path]) =>
              /\ path \in s3.last.done
              /\ s3.state[path] = Len(Unwrap(s3.last.local[path]))
         /\ (path \in s3.last.done) => s3.remote[path] = s3.last.local[path]

\* A pass in which the upload of the pack failed and the later upload of
\* the head table succeeded and was recorded.
C31_Witness ==
  /\ s3.last.kind = "sync"
  /\ "blobs/blobs.pack" \in s3.last.attempted \ s3.last.done
  /\ "turns/heads.tbl" \in s3.last.done
  /\ s3.state["blobs/blobs.pack"] = 0
  /\ s3.state["turns/heads.tbl"] > 0

\* C32: maybe_restore downloads only when no tracked file exists locally;
\* when one exists, or no manifest is fetched, the local files are as they
\* were and it returns Ok(false).
C32_RestoreOnlyWhenEmpty ==
  (s3.last.kind = "restore") =>
    LET had_local == \E path \in DOMAIN s3.last.local : s3.last.local[path] # None
    IN /\ (s3.last.done # {}) => ~had_local
       /\ (had_local \/ s3.last.fetch # "found") =>
            /\ s3.local = s3.last.local
            /\ s3.last.done = {}
            /\ s3.last.result = "Ok(false)"

\* A restore into an empty data directory that downloaded a file.
C32_Witness ==
  /\ s3.last.kind = "restore"
  /\ s3.last.done # {}
  /\ s3.local # s3.last.local
  /\ s3.last.result = "Ok(true)"

\* A restore that was skipped, with a backup in the bucket, because a
\* tracked file exists locally.
RestoreSkipped ==
  /\ s3.last.kind = "restore"
  /\ s3.last.fetch = "skipped"
  /\ s3.manifest # None

\* C38: after a do_sync pass in which every upload, the manifest upload
\* and the save succeed, the object of every tracked file that exists holds
\* the bytes of the local file.
C38_MirrorEqualsLocal ==
  (/\ s3.last.kind = "sync"
   /\ s3.last.attempted = s3.last.done
   /\ s3.last.result = "Ok") =>
    \A path \in DOMAIN s3.local :
      (s3.local[path] # None) => s3.remote[path] = s3.local[path]

\* Such a pass after the head table, mirrored once, was rewritten in place:
\* the bucket keeps the old bytes.
StaleHeadTable ==
  /\ s3.last.kind = "sync"
  /\ s3.last.attempted = s3.last.done
  /\ s3.last.result = "Ok"
  /\ s3.remote["turns/heads.tbl"] # None
  /\ s3.local["turns/heads.tbl"] # None
  /\ Len(Unwrap(s3.local["turns/heads.tbl"])) = Len(Unwrap(s3.remote["turns/heads.tbl"]))
  /\ s3.local["turns/heads.tbl"] # s3.remote["turns/heads.tbl"]

\* What such a pass does give: every file it found grown is mirrored.
GrownFilesMirrored ==
  (/\ s3.last.kind = "sync"
   /\ s3.last.attempted = s3.last.done) =>
    \A path \in s3.last.done : s3.remote[path] = s3.local[path]

\* C40: shutdown returns only after the sync task left its loop and ran
\* its one final do_sync.
C40_ShutdownAfterFinalSync ==
  (s3.stop = "returned") => (s3.loop = "done" /\ s3.finals = 1)

\* What holds whatever the interval: at most one final do_sync, and
\* shutdown returns after it unless the task panicked at its start.
FinalSyncAtMostOnce ==
  /\ s3.finals <= 1
  /\ (s3.stop = "returned" /\ s3.loop # "panicked") =>
       (s3.loop = "done" /\ s3.finals = 1)

\* The sync task under the scheduling of tokio: select! picks among the
\* ready branches at random, so the shutdown branch, enabled from the send
\* on, is taken at last; the final do_sync and the return of handle.await
\* are steps of running tasks.
SpecS3Fair ==
  /\ SpecS3
  /\ SF_vars(Break)
  /\ WF_vars(\E failed \in SUBSET Grown, registry_synced \in {0, 1},
                outcome \in {"none", "registry failed", "manifest failed", "save failed"} :
               FinalSync(failed, registry_synced, outcome))
  /\ WF_vars(ShutdownReturns)

\* Once shutdown has sent its signal to a task that is in its loop, the
\* task runs its final do_sync and shutdown returns, failing syncs or not.
ShutdownCompletes ==
  (s3.stop = "sent" /\ s3.loop = "select") ~> (s3.stop = "returned" /\ s3.finals = 1)

====
